---- MODULE Spec2Model ----
(***************************************************************************)
(* The job pipeline of the ResumeFlow backend: the batch runner            *)
(* (routers/search.py), the manual pipeline (routers/pipeline.py) and the  *)
(* job store they write through update_job (routers/jobs.py).              *)
(*                                                                         *)
(* Conventions.  A Python None is the empty sequence << >> and a present   *)
(* value v is << v >>.  An error text f"Scoring: {e}" is the sequence of   *)
(* its parts << "Scoring:", e >>; str(e) is << e >>.  updated_at is the    *)
(* number of writes the record has received (utcnow() is only ever         *)
(* compared with itself on one record).                                    *)
(***************************************************************************)
EXTENDS Integers, Sequences, FiniteSets, TLC

\* ---- bounds of the model ------------------------------------------------
MaxJobs == 2          \* uuid4 values handed out in one behaviour of Spec
MaxSearches == 1      \* batch runs of Spec that are under way or have registered jobs
CapPostings == 6      \* postings of the one batch of SpecCap
MaxUpdates == 3       \* update_job calls one record receives in SpecStore
MaxRows == 2          \* user_schedules rows inserted in one behaviour
MaxBoots == 1         \* process restarts in one behaviour
MaxRequests == 2      \* schedule requests handled at the same time

\* ---- program constants ---------------------------------------------------
SemaphoreValue == 5   \* asyncio.Semaphore(5)

None == << >>
Some(v) == << v >>

\* ---- what the collaborators may answer -----------------------------------
Thresholds == {75, 90}
\* int(data["match_score"]) of the answers of the LLM: two that follow the
\* prompt ("0-100 integer") and two that do not
Scores == {-5, 60, 75, 150}
ScoreResults ==
  { [match_score |-> s, reasoning |-> "fit", missing_skills |-> << "Go" >>] : s \in Scores }
TailorResults ==
  { [resume_suggestions |-> "1. Add Go", cover_letter |-> "Dear Hiring Manager"],
    [resume_suggestions |-> "", cover_letter |-> ""] }
LlmErrors == { "Expecting value" }
SmtpErrors == { "SMTPAuthenticationError" }
HttpErrors == { "500 Internal Server Error" }
NoKeyError == "GOOGLE_API_KEY not configured"
Users == { "u1", "u2" }
\* the environments the model starts in: SMTP_EMAIL and SMTP_PASSWORD both
\* set, and the password left empty
SmtpSettings == { << TRUE, TRUE >>, << TRUE, FALSE >> }

VARIABLES
  GOOGLE_API_KEY,   \* TRUE iff the environment sets a non-empty key
  SMTP_EMAIL,       \* TRUE iff non-empty
  SMTP_PASSWORD,    \* TRUE iff non-empty
  app_config,       \* [match_threshold |-> Int]
  jobs,             \* the job store: job id -> record
  uuids,            \* how many uuid4 values have been handed out
  searches,         \* the background batch runs, in request order
  tasks,            \* job id -> the coroutine that drives that job: where it is (pc)
                    \* and its locals sd, td, result and the caught exception e
  calls,            \* job id -> how often each stage was invoked (history)
  seen,             \* job id -> the status values its record has held (history)
  users,            \* the users table: user id -> [match_threshold]
  user_schedules,   \* the user_schedules table: user id -> its row
  scheduler,        \* the jobs of the APScheduler instance: user id -> trigger
  requests,         \* the schedule requests being handled, each with its locals
  rows,             \* how many user_schedules.id values were handed out
  boots,            \* how often the process was started again
  running,          \* TRUE while the application serves requests
  failed,           \* the users whose latest schedule request raised (history)
  retry,            \* the gemini_call_with_retry call under way
  last_update,      \* the update_job call made last, with the record before it
                    \* (history)
  saved_jobs,       \* the saved_jobs table: the rows [user_id, job_id]
  response,         \* the request to the jobs API answered last, with its
                    \* answer (history)
  firings           \* user id -> the _run_user_search call the scheduler made
                    \* last for that user, with its locals

vars == << GOOGLE_API_KEY, SMTP_EMAIL, SMTP_PASSWORD, app_config, jobs, uuids,
           searches, tasks, calls, seen, users, user_schedules, scheduler,
           requests, rows, boots, running, failed, retry, last_update,
           saved_jobs, response, firings >>
\* the settings read from the environment and the configuration file
config == << GOOGLE_API_KEY, SMTP_EMAIL, SMTP_PASSWORD, app_config >>
\* what the schedule router and the scheduler service work on
schedule == << user_schedules, scheduler, requests, rows, boots, running, failed >>
\* everything no step of a pipeline writes
env == << config, users, schedule, retry, last_update, saved_jobs, response,
         firings >>
\* what the batch runner and the pipelines work on
pipeline == << jobs, uuids, searches, tasks, calls, seen >>
\* what no schedule request writes
beside_schedule == << config, pipeline, users, retry, last_update, saved_jobs, response,
                      firings >>

InFlight == { "scoring", "tailoring", "emailing" }
Terminal == { "below_threshold", "scored", "emailed", "error" }

\* ---- job store ----------------------------------------------------------

\* faulty variant: the fields that are not named fall back to their values at
\* registration
Merge_replace(rec, kwargs) ==
  [ f \in DOMAIN rec |->
      IF f \in DOMAIN kwargs THEN kwargs[f]
      ELSE IF f = "error" THEN << >>
      ELSE rec[f] ]

\* kwargs of update_job: a function from field names to values
Merge(rec, kwargs) ==
  [ f \in DOMAIN rec |-> IF f \in DOMAIN kwargs THEN kwargs[f] ELSE rec[f] ]

\* faulty variant: the query is not filtered by the id, the update reaches
\* every record of the store
update_job_unfiltered(js, job_id, kwargs) ==
  IF job_id \in DOMAIN js
    THEN [ k \in DOMAIN js |->
             [ Merge(js[k], kwargs) EXCEPT !.updated_at = js[k].updated_at + 1 ] ]
    ELSE js

\* faulty variant: an id that matches no row gets a row made of the keyword
\* arguments
update_job_upsert(js, job_id, kwargs) ==
  [ k \in DOMAIN js \cup { job_id } |->
      IF k # job_id THEN js[k]
      ELSE IF job_id \in DOMAIN js
        THEN [ Merge(js[k], kwargs) EXCEPT !.updated_at = js[k].updated_at + 1 ]
        ELSE kwargs @@ [ id |-> job_id, user_id |-> << >>, updated_at |-> 0 ] ]

\* update_job(job_id, **kwargs) applied to store js
update_job(js, job_id, kwargs) ==
  IF job_id \in DOMAIN js
    THEN [ js EXCEPT ![job_id] =
             [ Merge(@, kwargs) EXCEPT !.updated_at = js[job_id].updated_at + 1 ] ]
    ELSE js

\* the record _run_search_pipeline registers for posting p of its scrape; it
\* names no owner (the request carries none), so the owner column is empty
SearchRecord(job_id, p) ==
  [ id |-> job_id, user_id |-> None, title |-> p, company |-> p, url |-> p,
    resume |-> "resume", job_description |-> p,
    recipient_email |-> "to", applicant_name |-> "name",
    status |-> "queued", match_score |-> None, reasoning |-> None,
    missing_skills |-> << >>, resume_suggestions |-> None,
    cover_letter |-> None, created_at |-> 0, updated_at |-> 0,
    error |-> None, platform |-> p, location |-> p, date_posted |-> p ]

\* GET /jobs/{job_id} by current_user: the row with that id and that owner, or
\* the 404 answer
NotFound == [ status_code |-> 404 ]
get_job(js, job_id, current_user) ==
  IF job_id \in DOMAIN js /\ js[job_id].user_id = Some(current_user)
    THEN js[job_id]
    ELSE NotFound

\* history: the status sequence after a write that sets status st
Saw(job_id, st) ==
  IF job_id \in DOMAIN jobs
    THEN [ seen EXCEPT ![job_id] = Append(@, st) ]
    ELSE seen

NoCalls == [ score |-> 0, tailor |-> 0, email |-> 0 ]

\* ---- start-up -----------------------------------------------------------
\* no wrapped call under way
NoRetry == [ pc |-> "idle", attempt |-> 0, results |-> << >>, slept |-> << >>,
             last_exc |-> None, out |-> None ]

\* the tables and the scheduler of a fresh installation: every user has the
\* column default of match_threshold, nobody has a schedule
InitOutside ==
  /\ users = [ u \in Users |-> [ match_threshold |-> 75 ] ]
  /\ user_schedules = << >>
  /\ scheduler = << >>
  /\ requests = << >>
  /\ rows = 0
  /\ boots = 0
  /\ running = TRUE
  /\ failed = { }
  /\ retry = NoRetry
  /\ last_update = None
  /\ saved_jobs = { }
  /\ response = None
  /\ firings = << >>

Init ==
  /\ GOOGLE_API_KEY \in BOOLEAN
  /\ \E s \in SmtpSettings : SMTP_EMAIL = s[1] /\ SMTP_PASSWORD = s[2]
  /\ app_config \in [ match_threshold : Thresholds ]
  /\ jobs = << >>
  /\ uuids = 0
  /\ searches = << >>
  /\ tasks = << >>
  /\ calls = << >>
  /\ seen = << >>
  /\ InitOutside

\* ---- batch runner -------------------------------------------------------

\* what the scrape handed to the executor comes to: it raises, or it returns
\* a list of n postings
ScrapeErrors == { "ConnectionError" }
ScrapeRaised(e) == [ raised |-> e ]
Scraped(n) == [ returned |-> n ]

\* faulty variant: a scrape that raised is carried on as one posting
raw_jobs_keeps_error(out) ==
  IF "raised" \in DOMAIN out THEN 1 ELSE out.returned

\* the length of raw_jobs: "except Exception" turns a raise into raw_jobs = []
raw_jobs(out) ==
  IF "raised" \in DOMAIN out THEN 0 ELSE out.returned

\* the key of the next background batch run
NextBatch ==
  CHOOSE b \in 1..(Cardinality(DOMAIN searches) + 1) :
    /\ b \notin DOMAIN searches
    /\ \A c \in 1..(b - 1) : c \in DOMAIN searches

\* POST /search: the request is accepted and the batch run is handed to the
\* background tasks; it starts by scraping in the executor
search_jobs(auto_pipeline) ==
  /\ searches' = [ b \in DOMAIN searches \cup { NextBatch } |->
                    IF b = NextBatch
                      THEN [ auto_pipeline |-> auto_pipeline, phase |-> "scraping",
                             scrape |-> None,
                             sem |-> SemaphoreValue, job_ids |-> << >> ]
                      ELSE searches[b] ]
  /\ UNCHANGED << env, jobs, uuids, tasks, calls, seen >>

\* the scrape of batch b is over with outcome out.  With no postings ("if not
\* raw_jobs") the run returns; otherwise every posting is registered as queued
\* and one process_one is created per job
run_search_pipeline(b, out) ==
  /\ b \in DOMAIN searches
  /\ searches[b].phase = "scraping"
  /\ IF raw_jobs(out) = 0
       THEN /\ searches' = [ searches EXCEPT ![b].phase = "returned",
                                             ![b].scrape = Some(out) ]
            /\ UNCHANGED << env, jobs, uuids, tasks, calls, seen >>
       ELSE LET n == raw_jobs(out)
                ids == [ p \in 1..n |-> uuids + p ]
                new == { ids[p] : p \in 1..n }
            IN /\ uuids' = uuids + n
               /\ jobs' = [ j \in DOMAIN jobs \cup new |->
                             IF j \in new THEN SearchRecord(j, j - uuids) ELSE jobs[j] ]
               /\ tasks' = [ j \in DOMAIN tasks \cup new |->
                              IF j \in new
                                THEN [ kind |-> IF searches[b].auto_pipeline
                                                  THEN "pipeline_job" ELSE "score_only",
                                       batch |-> b, pc |-> "sem",
                                       sd |-> None, td |-> None,
                                       result |-> None, e |-> None ]
                                ELSE tasks[j] ]
               /\ calls' = [ j \in DOMAIN calls \cup new |->
                              IF j \in new THEN NoCalls ELSE calls[j] ]
               /\ seen' = [ j \in DOMAIN seen \cup new |->
                             IF j \in new THEN << "queued" >> ELSE seen[j] ]
               /\ searches' = [ searches EXCEPT ![b].phase = "gather",
                                                ![b].scrape = Some(out),
                                                ![b].job_ids = ids ]
               /\ UNCHANGED env

\* faulty variant: a pipeline that returns keeps its permit
Release_keeps_permit(j) == searches

\* the pipeline of job j returns: its permit goes back to the batch's semaphore
Release(j) ==
  IF tasks[j].batch = 0
    THEN searches
    ELSE [ searches EXCEPT ![tasks[j].batch].sem = @ + 1 ]

\* faulty variant: process_one writes to the record of the job registered
\* last, not to its own
process_one_last_id(j) ==
  /\ j \in DOMAIN tasks
  /\ tasks[j].pc = "sem"
  /\ LET b == tasks[j].batch IN
       /\ searches[b].sem > 0
       /\ \A k \in DOMAIN tasks :
            (tasks[k].batch = b /\ k < j) => tasks[k].pc # "sem"
       /\ searches' = [ searches EXCEPT ![b].sem = @ - 1 ]
  /\ jobs' = update_job(jobs, uuids, [ status |-> "scoring" ])
  /\ seen' = Saw(uuids, "scoring")
  /\ tasks' = [ tasks EXCEPT ![j].pc = "score_resume" ]
  /\ calls' = [ calls EXCEPT ![j].score = @ + 1 ]
  /\ UNCHANGED << env, uuids >>

\* faulty variant: process_one does not wait for the semaphore
process_one_unbounded(j) ==
  /\ j \in DOMAIN tasks
  /\ tasks[j].pc = "sem"
  /\ LET b == tasks[j].batch IN
       /\ \A k \in DOMAIN tasks :
            (tasks[k].batch = b /\ k < j) => tasks[k].pc # "sem"
       /\ searches' = [ searches EXCEPT ![b].sem = @ - 1 ]
  /\ jobs' = update_job(jobs, j, [ status |-> "scoring" ])
  /\ seen' = Saw(j, "scoring")
  /\ tasks' = [ tasks EXCEPT ![j].pc = "score_resume" ]
  /\ calls' = [ calls EXCEPT ![j].score = @ + 1 ]
  /\ UNCHANGED << env, uuids >>

\* process_one enters "async with sem" and makes its first write, then calls
\* score_resume.  Waiters are woken in the order they queued, which is the
\* order of job_ids.
process_one(j) ==
  /\ j \in DOMAIN tasks
  /\ tasks[j].pc = "sem"
  /\ LET b == tasks[j].batch IN
       /\ searches[b].sem > 0
       /\ \A k \in DOMAIN tasks :
            (tasks[k].batch = b /\ k < j) => tasks[k].pc # "sem"
       /\ searches' = [ searches EXCEPT ![b].sem = @ - 1 ]
  /\ jobs' = update_job(jobs, j, [ status |-> "scoring" ])
  /\ seen' = Saw(j, "scoring")
  /\ tasks' = [ tasks EXCEPT ![j].pc = "score_resume" ]
  /\ calls' = [ calls EXCEPT ![j].score = @ + 1 ]
  /\ UNCHANGED << env, uuids >>

\* ---- the stages, as the orchestrators see them --------------------------

\* score_resume raises: without a key at once, otherwise whatever the LLM call
\* or the parsing of its answer raises
ScoreRaises == IF GOOGLE_API_KEY THEN LlmErrors ELSE { NoKeyError }
\* score_resume returns the three keys of its result
ScoreReturns == IF GOOGLE_API_KEY THEN ScoreResults ELSE { }
\* the results of an LLM that keeps to the prompt: match_score is "0-100"
PromptedScoreReturns == { sd \in ScoreReturns : sd.match_score \in 0..100 }
\* tailor_documents: the same check of the key, then two LLM calls; it returns
\* both texts or raises
TailorRaises == IF GOOGLE_API_KEY THEN LlmErrors ELSE { NoKeyError }
TailorReturns == IF GOOGLE_API_KEY THEN TailorResults ELSE { }
\* send_match_email: "skipped" without credentials, otherwise "sent" or an error
SmtpConfigured == SMTP_EMAIL /\ SMTP_PASSWORD
EmailReturns ==
  IF ~SmtpConfigured
    THEN { [ status |-> "skipped" ] }
    ELSE { [ status |-> "sent" ] }
EmailRaises == IF ~SmtpConfigured THEN { } ELSE SmtpErrors

\* ---- _pipeline_job ------------------------------------------------------

\* faulty variant: the exception of score_resume is not caught
pipeline_job_score_raises_escapes(j, e) ==
  /\ j \in DOMAIN tasks
  /\ tasks[j].kind = "pipeline_job"
  /\ tasks[j].pc = "score_resume"
  /\ e \in ScoreRaises
  /\ tasks' = [ tasks EXCEPT ![j].pc = "raised", ![j].e = Some(e) ]
  /\ searches' = Release(j)
  /\ UNCHANGED << env, uuids, calls, jobs, seen >>

\* score_resume raised e: "except Exception" writes the error and returns
pipeline_job_score_raises(j, e) ==
  /\ j \in DOMAIN tasks
  /\ tasks[j].kind = "pipeline_job"
  /\ tasks[j].pc = "score_resume"
  /\ e \in ScoreRaises
  /\ jobs' = update_job(jobs, j, [ status |-> "error", error |-> << "Scoring:", e >> ])
  /\ seen' = Saw(j, "error")
  /\ tasks' = [ tasks EXCEPT ![j].pc = "done", ![j].e = Some(e) ]
  /\ searches' = Release(j)
  /\ UNCHANGED << env, uuids, calls >>

\* faulty variant: the gate compares with the default of the environment, not with
\* the configured threshold
BelowThreshold_default(score) == score < 75

\* the comparison of the gate: score < app_config["match_threshold"]
BelowThreshold(score) == score < app_config.match_threshold

\* the write of the three fields score_resume returned
ScoreFields(sd) ==
  [ match_score |-> Some(sd.match_score),
    reasoning |-> Some(sd.reasoning),
    missing_skills |-> sd.missing_skills ]

\* faulty variant: the write of the texts also puts the cover letter's
\* salutation in the title column
TailorFields_title(td) ==
  [ resume_suggestions |-> Some(td.resume_suggestions),
    cover_letter |-> Some(td.cover_letter),
    title |-> td.cover_letter ]

\* the write of the two texts tailor_documents returned
TailorFields(td) ==
  [ resume_suggestions |-> Some(td.resume_suggestions),
    cover_letter |-> Some(td.cover_letter) ]

\* faulty variant: the fields are written but status "tailoring" is not
pipeline_job_scored_stale(j, sd) ==
  /\ j \in DOMAIN tasks
  /\ tasks[j].kind = "pipeline_job"
  /\ tasks[j].pc = "score_resume"
  /\ sd \in ScoreReturns
  /\ IF BelowThreshold(sd.match_score)
       THEN /\ jobs' = update_job(update_job(jobs, j, ScoreFields(sd)), j,
                         [ status |-> "below_threshold" ])
            /\ seen' = Saw(j, "below_threshold")
            /\ tasks' = [ tasks EXCEPT ![j].pc = "done", ![j].sd = Some(sd) ]
            /\ searches' = Release(j)
            /\ UNCHANGED calls
       ELSE /\ jobs' = update_job(jobs, j, ScoreFields(sd))
            /\ seen' = seen
            /\ tasks' = [ tasks EXCEPT ![j].pc = "tailor_documents", ![j].sd = Some(sd) ]
            /\ calls' = [ calls EXCEPT ![j].tailor = @ + 1 ]
            /\ UNCHANGED searches
  /\ UNCHANGED << env, uuids >>

\* score_resume returned sd: its three fields are written, then the gate:
\* below the threshold the job ends, otherwise status "tailoring" is written
\* and tailor_documents is called
pipeline_job_scored(j, sd) ==
  /\ j \in DOMAIN tasks
  /\ tasks[j].kind = "pipeline_job"
  /\ tasks[j].pc = "score_resume"
  /\ sd \in ScoreReturns
  /\ IF BelowThreshold(sd.match_score)
       THEN /\ jobs' = update_job(update_job(jobs, j, ScoreFields(sd)), j,
                         [ status |-> "below_threshold" ])
            /\ seen' = Saw(j, "below_threshold")
            /\ tasks' = [ tasks EXCEPT ![j].pc = "done", ![j].sd = Some(sd) ]
            /\ searches' = Release(j)
            /\ UNCHANGED calls
       ELSE /\ jobs' = update_job(update_job(jobs, j, ScoreFields(sd)), j,
                         [ status |-> "tailoring" ])
            /\ seen' = Saw(j, "tailoring")
            /\ tasks' = [ tasks EXCEPT ![j].pc = "tailor_documents", ![j].sd = Some(sd) ]
            /\ calls' = [ calls EXCEPT ![j].tailor = @ + 1 ]
            /\ UNCHANGED searches
  /\ UNCHANGED << env, uuids >>

\* faulty variant: a failed tailoring is tried again
pipeline_job_tailor_raises_retry(j, e) ==
  /\ j \in DOMAIN tasks
  /\ tasks[j].kind = "pipeline_job"
  /\ tasks[j].pc = "tailor_documents"
  /\ e \in TailorRaises
  /\ calls[j].tailor < 2
  /\ calls' = [ calls EXCEPT ![j].tailor = @ + 1 ]
  /\ UNCHANGED << env, uuids, jobs, seen, tasks, searches >>

\* tailor_documents raised e
pipeline_job_tailor_raises(j, e) ==
  /\ j \in DOMAIN tasks
  /\ tasks[j].kind = "pipeline_job"
  /\ tasks[j].pc = "tailor_documents"
  /\ e \in TailorRaises
  /\ jobs' = update_job(jobs, j, [ status |-> "error", error |-> << "Tailoring:", e >> ])
  /\ seen' = Saw(j, "error")
  /\ tasks' = [ tasks EXCEPT ![j].pc = "done", ![j].e = Some(e) ]
  /\ searches' = Release(j)
  /\ UNCHANGED << env, uuids, calls >>

\* tailor_documents returned td: both texts are written, then status
\* "emailing", and send_match_email is called
pipeline_job_tailored(j, td) ==
  /\ j \in DOMAIN tasks
  /\ tasks[j].kind = "pipeline_job"
  /\ tasks[j].pc = "tailor_documents"
  /\ td \in TailorReturns
  /\ jobs' = update_job(update_job(jobs, j, TailorFields(td)), j, [ status |-> "emailing" ])
  /\ seen' = Saw(j, "emailing")
  /\ tasks' = [ tasks EXCEPT ![j].pc = "send_match_email", ![j].td = Some(td) ]
  /\ calls' = [ calls EXCEPT ![j].email = @ + 1 ]
  /\ UNCHANGED << env, uuids, searches >>

\* faulty variant: a skipped send is treated as a failed one
pipeline_job_email_returns_strict(j, result) ==
  /\ j \in DOMAIN tasks
  /\ tasks[j].kind = "pipeline_job"
  /\ tasks[j].pc = "send_match_email"
  /\ result \in EmailReturns
  /\ IF result.status = "skipped"
       THEN /\ jobs' = update_job(jobs, j,
                         [ status |-> "error", error |-> << "Email:", "skipped" >> ])
            /\ seen' = Saw(j, "error")
       ELSE /\ jobs' = update_job(jobs, j, [ status |-> "emailed" ])
            /\ seen' = Saw(j, "emailed")
  /\ tasks' = [ tasks EXCEPT ![j].pc = "done", ![j].result = Some(result) ]
  /\ searches' = Release(j)
  /\ UNCHANGED << env, uuids, calls >>

\* send_match_email returned result: "skipped" ends in scored, anything else
\* in emailed
pipeline_job_email_returns(j, result) ==
  /\ j \in DOMAIN tasks
  /\ tasks[j].kind = "pipeline_job"
  /\ tasks[j].pc = "send_match_email"
  /\ result \in EmailReturns
  /\ LET st == IF result.status = "skipped" THEN "scored" ELSE "emailed" IN
       /\ jobs' = update_job(jobs, j, [ status |-> st ])
       /\ seen' = Saw(j, st)
  /\ tasks' = [ tasks EXCEPT ![j].pc = "done", ![j].result = Some(result) ]
  /\ searches' = Release(j)
  /\ UNCHANGED << env, uuids, calls >>

\* faulty variant: a failed send puts the job back in the queue
pipeline_job_email_raises_requeue(j, e) ==
  /\ j \in DOMAIN tasks
  /\ tasks[j].kind = "pipeline_job"
  /\ tasks[j].pc = "send_match_email"
  /\ e \in EmailRaises
  /\ jobs' = update_job(jobs, j, [ status |-> "queued", error |-> << "Email:", e >> ])
  /\ seen' = Saw(j, "queued")
  /\ tasks' = [ tasks EXCEPT ![j].pc = "done", ![j].e = Some(e) ]
  /\ searches' = Release(j)
  /\ UNCHANGED << env, uuids, calls >>

\* faulty variant: the write of the error also empties the two texts
pipeline_job_email_raises_clears(j, e) ==
  /\ j \in DOMAIN tasks
  /\ tasks[j].kind = "pipeline_job"
  /\ tasks[j].pc = "send_match_email"
  /\ e \in EmailRaises
  /\ jobs' = update_job(jobs, j, [ status |-> "error", error |-> << "Email:", e >>,
                                   resume_suggestions |-> None, cover_letter |-> None ])
  /\ seen' = Saw(j, "error")
  /\ tasks' = [ tasks EXCEPT ![j].pc = "done", ![j].e = Some(e) ]
  /\ searches' = Release(j)
  /\ UNCHANGED << env, uuids, calls >>

\* send_match_email raised e
pipeline_job_email_raises(j, e) ==
  /\ j \in DOMAIN tasks
  /\ tasks[j].kind = "pipeline_job"
  /\ tasks[j].pc = "send_match_email"
  /\ e \in EmailRaises
  /\ jobs' = update_job(jobs, j, [ status |-> "error", error |-> << "Email:", e >> ])
  /\ seen' = Saw(j, "error")
  /\ tasks' = [ tasks EXCEPT ![j].pc = "done", ![j].e = Some(e) ]
  /\ searches' = Release(j)
  /\ UNCHANGED << env, uuids, calls >>

\* ---- process_one with auto_pipeline false: score only -------------------

\* faulty variant: a passing score is handed on to the tailoring stage
score_only_scored_tailors(j, sd) ==
  /\ j \in DOMAIN tasks
  /\ tasks[j].kind = "score_only"
  /\ tasks[j].pc = "score_resume"
  /\ sd \in ScoreReturns
  /\ IF BelowThreshold(sd.match_score)
       THEN /\ jobs' = update_job(update_job(jobs, j, ScoreFields(sd)), j,
                         [ status |-> "below_threshold" ])
            /\ seen' = Saw(j, "below_threshold")
            /\ tasks' = [ tasks EXCEPT ![j].pc = "done", ![j].sd = Some(sd) ]
            /\ searches' = Release(j)
            /\ UNCHANGED calls
       ELSE /\ jobs' = update_job(update_job(jobs, j, ScoreFields(sd)), j,
                         [ status |-> "tailoring" ])
            /\ seen' = Saw(j, "tailoring")
            /\ tasks' = [ tasks EXCEPT ![j].pc = "tailor_documents",
                                       ![j].sd = Some(sd) ]
            /\ calls' = [ calls EXCEPT ![j].tailor = @ + 1 ]
            /\ UNCHANGED searches
  /\ UNCHANGED << env, uuids >>

\* score_resume returned sd: one write sets the fields and the final status
score_only_scored(j, sd) ==
  /\ j \in DOMAIN tasks
  /\ tasks[j].kind = "score_only"
  /\ tasks[j].pc = "score_resume"
  /\ sd \in ScoreReturns
  /\ LET st == IF BelowThreshold(sd.match_score) THEN "below_threshold" ELSE "scored" IN
       /\ jobs' = update_job(jobs, j,
                    [ match_score |-> Some(sd.match_score),
                      reasoning |-> Some(sd.reasoning),
                      missing_skills |-> sd.missing_skills,
                      status |-> st ])
       /\ seen' = Saw(j, st)
  /\ tasks' = [ tasks EXCEPT ![j].pc = "done", ![j].sd = Some(sd) ]
  /\ searches' = Release(j)
  /\ UNCHANGED << env, uuids, calls >>

\* faulty variant: the error is written but the scoring is then awaited again
score_only_raises_continue(j, e) ==
  /\ j \in DOMAIN tasks
  /\ tasks[j].kind = "score_only"
  /\ tasks[j].pc = "score_resume"
  /\ e \in ScoreRaises
  /\ jobs[j].status # "error"
  /\ jobs' = update_job(jobs, j, [ status |-> "error", error |-> << e >> ])
  /\ seen' = Saw(j, "error")
  /\ tasks' = [ tasks EXCEPT ![j].e = Some(e) ]
  /\ UNCHANGED << env, uuids, calls, searches >>

\* faulty variant: the status is written without the error text
score_only_raises_status_only(j, e) ==
  /\ j \in DOMAIN tasks
  /\ tasks[j].kind = "score_only"
  /\ tasks[j].pc = "score_resume"
  /\ e \in ScoreRaises
  /\ jobs' = update_job(jobs, j, [ status |-> "error" ])
  /\ seen' = Saw(j, "error")
  /\ tasks' = [ tasks EXCEPT ![j].pc = "done", ![j].e = Some(e) ]
  /\ searches' = Release(j)
  /\ UNCHANGED << env, uuids, calls >>

\* score_resume raised e: the error text is str(e)
score_only_raises(j, e) ==
  /\ j \in DOMAIN tasks
  /\ tasks[j].kind = "score_only"
  /\ tasks[j].pc = "score_resume"
  /\ e \in ScoreRaises
  /\ jobs' = update_job(jobs, j, [ status |-> "error", error |-> << e >> ])
  /\ seen' = Saw(j, "error")
  /\ tasks' = [ tasks EXCEPT ![j].pc = "done", ![j].e = Some(e) ]
  /\ searches' = Release(j)
  /\ UNCHANGED << env, uuids, calls >>

\* ---- manual pipeline: POST /pipeline and _run_pipeline -------------------

\* the record run_pipeline registers, again without an owner
PipelineRecord(job_id) ==
  [ id |-> job_id, user_id |-> None, title |-> "Position", company |-> "Company", url |-> "",
    resume |-> "resume", job_description |-> "jd",
    recipient_email |-> "to", applicant_name |-> "name",
    status |-> "queued", match_score |-> None, reasoning |-> None,
    missing_skills |-> << >>, resume_suggestions |-> None,
    cover_letter |-> None, created_at |-> 0, updated_at |-> 0,
    error |-> None, platform |-> "manual", location |-> "", date_posted |-> "" ]

\* what the requests of _run_pipeline to this process's own endpoints give:
\* /score and /tailor answer 500 when the service raises or the key is absent,
\* /send-email answers 500 without credentials and 401 or 500 when the send
\* fails; raise_for_status turns each into an exception, and the request
\* itself may time out
HttpScoreRaises == HttpErrors
HttpScoreReturns == ScoreReturns
HttpTailorRaises == HttpErrors
HttpTailorReturns == TailorReturns
HttpEmailRaises == HttpErrors
HttpEmailReturns == IF SmtpConfigured THEN { [ status |-> "sent" ] } ELSE { }

\* POST /pipeline: the record is registered as queued and _run_pipeline is
\* handed to the background tasks
run_pipeline ==
  /\ LET j == uuids + 1 IN
       /\ jobs' = [ k \in DOMAIN jobs \cup { j } |->
                     IF k = j THEN PipelineRecord(j) ELSE jobs[k] ]
       /\ tasks' = [ k \in DOMAIN tasks \cup { j } |->
                      IF k = j
                        THEN [ kind |-> "run_pipeline", batch |-> 0, pc |-> "start",
                               sd |-> None, td |-> None,
                               result |-> None, e |-> None ]
                        ELSE tasks[k] ]
       /\ calls' = [ k \in DOMAIN calls \cup { j } |->
                      IF k = j THEN NoCalls ELSE calls[k] ]
       /\ seen' = [ k \in DOMAIN seen \cup { j } |->
                     IF k = j THEN << "queued" >> ELSE seen[k] ]
  /\ uuids' = uuids + 1
  /\ UNCHANGED << env, searches >>

\* _run_pipeline starts: status "scoring" is written and /score is requested
run_pipeline_start(j) ==
  /\ j \in DOMAIN tasks
  /\ tasks[j].kind = "run_pipeline"
  /\ tasks[j].pc = "start"
  /\ jobs' = update_job(jobs, j, [ status |-> "scoring" ])
  /\ seen' = Saw(j, "scoring")
  /\ tasks' = [ tasks EXCEPT ![j].pc = "score_resume" ]
  /\ calls' = [ calls EXCEPT ![j].score = @ + 1 ]
  /\ UNCHANGED << env, uuids, searches >>

\* /score failed
run_pipeline_score_raises(j, e) ==
  /\ j \in DOMAIN tasks
  /\ tasks[j].kind = "run_pipeline"
  /\ tasks[j].pc = "score_resume"
  /\ e \in HttpScoreRaises
  /\ jobs' = update_job(jobs, j, [ status |-> "error", error |-> << "Scoring failed:", e >> ])
  /\ seen' = Saw(j, "error")
  /\ tasks' = [ tasks EXCEPT ![j].pc = "done", ![j].e = Some(e) ]
  /\ UNCHANGED << env, uuids, searches, calls >>

\* faulty variant: the fields are written and the job goes on to tailoring
\* whatever its score
run_pipeline_scored_ungated(j, sd) ==
  /\ j \in DOMAIN tasks
  /\ tasks[j].kind = "run_pipeline"
  /\ tasks[j].pc = "score_resume"
  /\ sd \in HttpScoreReturns
  /\ jobs' = update_job(update_job(jobs, j, ScoreFields(sd)), j,
                [ status |-> "tailoring" ])
  /\ seen' = Saw(j, "tailoring")
  /\ tasks' = [ tasks EXCEPT ![j].pc = "tailor_documents", ![j].sd = Some(sd) ]
  /\ calls' = [ calls EXCEPT ![j].tailor = @ + 1 ]
  /\ UNCHANGED << env, uuids, searches >>

\* /score answered sd: the fields are written, then the gate
run_pipeline_scored(j, sd) ==
  /\ j \in DOMAIN tasks
  /\ tasks[j].kind = "run_pipeline"
  /\ tasks[j].pc = "score_resume"
  /\ sd \in HttpScoreReturns
  /\ IF BelowThreshold(sd.match_score)
       THEN /\ jobs' = update_job(update_job(jobs, j, ScoreFields(sd)), j,
                         [ status |-> "below_threshold" ])
            /\ seen' = Saw(j, "below_threshold")
            /\ tasks' = [ tasks EXCEPT ![j].pc = "done", ![j].sd = Some(sd) ]
            /\ UNCHANGED calls
       ELSE /\ jobs' = update_job(update_job(jobs, j, ScoreFields(sd)), j,
                         [ status |-> "tailoring" ])
            /\ seen' = Saw(j, "tailoring")
            /\ tasks' = [ tasks EXCEPT ![j].pc = "tailor_documents", ![j].sd = Some(sd) ]
            /\ calls' = [ calls EXCEPT ![j].tailor = @ + 1 ]
  /\ UNCHANGED << env, uuids, searches >>

\* /tailor failed
run_pipeline_tailor_raises(j, e) ==
  /\ j \in DOMAIN tasks
  /\ tasks[j].kind = "run_pipeline"
  /\ tasks[j].pc = "tailor_documents"
  /\ e \in HttpTailorRaises
  /\ jobs' = update_job(jobs, j, [ status |-> "error", error |-> << "Tailoring failed:", e >> ])
  /\ seen' = Saw(j, "error")
  /\ tasks' = [ tasks EXCEPT ![j].pc = "done", ![j].e = Some(e) ]
  /\ UNCHANGED << env, uuids, searches, calls >>

\* /tailor answered td: both texts are written, then status "emailing", and
\* /send-email is requested
run_pipeline_tailored(j, td) ==
  /\ j \in DOMAIN tasks
  /\ tasks[j].kind = "run_pipeline"
  /\ tasks[j].pc = "tailor_documents"
  /\ td \in HttpTailorReturns
  /\ jobs' = update_job(update_job(jobs, j, TailorFields(td)), j, [ status |-> "emailing" ])
  /\ seen' = Saw(j, "emailing")
  /\ tasks' = [ tasks EXCEPT ![j].pc = "send_match_email", ![j].td = Some(td) ]
  /\ calls' = [ calls EXCEPT ![j].email = @ + 1 ]
  /\ UNCHANGED << env, uuids, searches >>

\* /send-email answered 200: the job is emailed
run_pipeline_email_returns(j, result) ==
  /\ j \in DOMAIN tasks
  /\ tasks[j].kind = "run_pipeline"
  /\ tasks[j].pc = "send_match_email"
  /\ result \in HttpEmailReturns
  /\ jobs' = update_job(jobs, j, [ status |-> "emailed" ])
  /\ seen' = Saw(j, "emailed")
  /\ tasks' = [ tasks EXCEPT ![j].pc = "done", ![j].result = Some(result) ]
  /\ UNCHANGED << env, uuids, searches, calls >>

\* /send-email failed
run_pipeline_email_raises(j, e) ==
  /\ j \in DOMAIN tasks
  /\ tasks[j].kind = "run_pipeline"
  /\ tasks[j].pc = "send_match_email"
  /\ e \in HttpEmailRaises
  /\ jobs' = update_job(jobs, j, [ status |-> "error", error |-> << "Email failed:", e >> ])
  /\ seen' = Saw(j, "error")
  /\ tasks' = [ tasks EXCEPT ![j].pc = "done", ![j].e = Some(e) ]
  /\ UNCHANGED << env, uuids, searches, calls >>

\* ---- specifications -----------------------------------------------------

JobIds == DOMAIN tasks

SearchJobs ==
  \E a \in BOOLEAN :
    Cardinality(DOMAIN searches) < MaxSearches /\ uuids < MaxJobs /\ search_jobs(a)
\* the outcomes of a scrape: it raised, or it returned up to as many postings
\* as there are job ids left
ScrapeOutcomes ==
  { ScrapeRaised(e) : e \in ScrapeErrors } \cup { Scraped(n) : n \in 0..(MaxJobs - uuids) }
RunSearchPipeline ==
  \E b \in DOMAIN searches : \E out \in ScrapeOutcomes : run_search_pipeline(b, out)
ProcessOne == \E j \in JobIds : process_one(j)
PipelineJobScoreRaises == \E j \in JobIds : \E e \in ScoreRaises : pipeline_job_score_raises(j, e)
PipelineJobScored ==
  \E j \in JobIds : \E sd \in PromptedScoreReturns : pipeline_job_scored(j, sd)
PipelineJobTailorRaises == \E j \in JobIds : \E e \in TailorRaises : pipeline_job_tailor_raises(j, e)
PipelineJobTailored == \E j \in JobIds : \E td \in TailorReturns : pipeline_job_tailored(j, td)
PipelineJobEmailReturns == \E j \in JobIds : \E r \in EmailReturns : pipeline_job_email_returns(j, r)
PipelineJobEmailRaises == \E j \in JobIds : \E e \in EmailRaises : pipeline_job_email_raises(j, e)
ScoreOnlyScored ==
  \E j \in JobIds : \E sd \in PromptedScoreReturns : score_only_scored(j, sd)
ScoreOnlyRaises == \E j \in JobIds : \E e \in ScoreRaises : score_only_raises(j, e)
RunPipeline == uuids < MaxJobs /\ run_pipeline
RunPipelineStart == \E j \in JobIds : run_pipeline_start(j)
RunPipelineScoreRaises == \E j \in JobIds : \E e \in HttpScoreRaises : run_pipeline_score_raises(j, e)
RunPipelineScored ==
  \E j \in JobIds : \E sd \in HttpScoreReturns \cap PromptedScoreReturns :
    run_pipeline_scored(j, sd)
RunPipelineTailorRaises == \E j \in JobIds : \E e \in HttpTailorRaises : run_pipeline_tailor_raises(j, e)
RunPipelineTailored == \E j \in JobIds : \E td \in HttpTailorReturns : run_pipeline_tailored(j, td)
RunPipelineEmailReturns == \E j \in JobIds : \E r \in HttpEmailReturns : run_pipeline_email_returns(j, r)
RunPipelineEmailRaises == \E j \in JobIds : \E e \in HttpEmailRaises : run_pipeline_email_raises(j, e)

Next ==
  \/ SearchJobs
  \/ RunSearchPipeline
  \/ ProcessOne
  \/ PipelineJobScoreRaises
  \/ PipelineJobScored
  \/ PipelineJobTailorRaises
  \/ PipelineJobTailored
  \/ PipelineJobEmailReturns
  \/ PipelineJobEmailRaises
  \/ ScoreOnlyScored
  \/ ScoreOnlyRaises
  \/ RunPipeline
  \/ RunPipelineStart
  \/ RunPipelineScoreRaises
  \/ RunPipelineScored
  \/ RunPipelineTailorRaises
  \/ RunPipelineTailored
  \/ RunPipelineEmailReturns
  \/ RunPipelineEmailRaises

Spec == Init /\ [][Next]_vars

\* ---- PATCH /config ------------------------------------------------------
\* the match_threshold values a client may send
ConfigPayloads == { 0, 90, 120 }

Max(a, b) == IF a >= b THEN a ELSE b
Min(a, b) == IF a <= b THEN a ELSE b

\* update_config: the clamped value is stored in the caller's users row
update_config(current_user, payload) ==
  /\ users' = [ users EXCEPT ![current_user].match_threshold =
                  Max(0, Min(100, payload)) ]
  /\ UNCHANGED << config, firings, pipeline, schedule, retry, last_update, saved_jobs, response >>

\* ---- a batch run while users change their threshold ----------------------
\* MATCH_THRESHOLD at its default 75, the same as the column default
InitConfig ==
  /\ GOOGLE_API_KEY = TRUE
  /\ SMTP_EMAIL = TRUE
  /\ SMTP_PASSWORD = FALSE
  /\ app_config = [ match_threshold |-> 75 ]
  /\ jobs = << >>
  /\ uuids = 0
  /\ searches = << >>
  /\ tasks = << >>
  /\ calls = << >>
  /\ seen = << >>
  /\ InitOutside

UpdateConfig == \E u \in Users : \E v \in ConfigPayloads : update_config(u, v)

NextConfig ==
  \/ UpdateConfig
  \/ SearchJobs
  \/ RunSearchPipeline
  \/ ProcessOne
  \/ PipelineJobScored
  \/ ScoreOnlyScored

SpecConfig == InitConfig /\ [][NextConfig]_vars

\* ---- gemini_call_with_retry ----------------------------------------------
\* A message is the sequence of its pieces; a status code is spelt digit by
\* digit, so that f"{code}" in msg is a search for the three digits.
_RETRYABLE_CODES == { << "4", "2", "9" >>, << "5", "0", "3" >> }
_MAX_RETRIES == 4
_BASE_DELAY == 5

\* str(e) of the exceptions fn raises: the two retryable statuses, a 400, and
\* a 400 whose text happens to carry the digits 503
GeminiErrors ==
  { << "5", "0", "3", " UNAVAILABLE" >>,
    << "4", "2", "9", " RESOURCE_EXHAUSTED" >>,
    << "4", "0", "0", " INVALID_ARGUMENT" >>,
    << "4", "0", "0", " input of ", "1", "5", "0", "3", "4", " tokens" >> }
\* what fn returns
GeminiResponses == { "response" }
Raised(e) == [ raised |-> e ]
Returned(v) == [ returned |-> v ]

\* code in msg
Contains(msg, code) ==
  \E i \in 1..(Len(msg) - Len(code) + 1) :
    SubSeq(msg, i, i + Len(code) - 1) = code

\* any(f"{code}" in msg for code in _RETRYABLE_CODES)
is_retryable(msg) == \E code \in _RETRYABLE_CODES : Contains(msg, code)

RECURSIVE Pow2(_)
Pow2(n) == IF n = 0 THEN 1 ELSE 2 * Pow2(n - 1)

\* faulty variant: the delay grows by the base instead of doubling
delay_linear(attempt) == _BASE_DELAY * (attempt + 1)

\* delay = _BASE_DELAY * (2 ** attempt)
delay(attempt) == _BASE_DELAY * Pow2(attempt)

\* the wrapper is called: last_exc = None and the loop starts with attempt 0
gemini_call_with_retry ==
  /\ retry.pc \in { "idle", "returned", "raised" }
  /\ retry' = [ NoRetry EXCEPT !.pc = "fn" ]
  /\ UNCHANGED << config, firings, pipeline, users, schedule, last_update, saved_jobs, response >>

\* fn(*args, **kwargs) returns v: the wrapper returns it
retry_fn_returns(v) ==
  /\ retry.pc = "fn"
  /\ retry' = [ retry EXCEPT !.pc = "returned",
                             !.results = Append(@, Returned(v)),
                             !.out = Some(Returned(v)) ]
  /\ UNCHANGED << config, firings, pipeline, users, schedule, last_update, saved_jobs, response >>

\* faulty variant: on giving up, the exception kept from the attempt before
\* is raised
retry_fn_raises_last_exc(e) ==
  /\ retry.pc = "fn"
  /\ IF ~is_retryable(e) \/ retry.attempt = _MAX_RETRIES - 1
       THEN retry' = [ retry EXCEPT !.pc = "raised",
                                    !.results = Append(@, Raised(e)),
                                    !.out = IF retry.last_exc = None
                                              THEN Some(Raised(e))
                                              ELSE Some(Raised(retry.last_exc[1])) ]
       ELSE retry' = [ retry EXCEPT !.pc = "sleep",
                                    !.results = Append(@, Raised(e)),
                                    !.slept = Append(@, delay(retry.attempt)) ]
  /\ UNCHANGED << config, firings, pipeline, users, schedule, last_update, saved_jobs, response >>

\* fn raises e: a bare raise if e is not retryable or this was the last
\* attempt, otherwise asyncio.sleep(delay) is awaited
retry_fn_raises(e) ==
  /\ retry.pc = "fn"
  /\ IF ~is_retryable(e) \/ retry.attempt = _MAX_RETRIES - 1
       THEN retry' = [ retry EXCEPT !.pc = "raised",
                                    !.results = Append(@, Raised(e)),
                                    !.out = Some(Raised(e)) ]
       ELSE retry' = [ retry EXCEPT !.pc = "sleep",
                                    !.results = Append(@, Raised(e)),
                                    !.slept = Append(@, delay(retry.attempt)) ]
  /\ UNCHANGED << config, firings, pipeline, users, schedule, last_update, saved_jobs, response >>

\* the sleep is over: last_exc = e and the loop goes on; after the loop the
\* wrapper would raise last_exc
retry_sleep_returns ==
  /\ retry.pc = "sleep"
  /\ LET e == retry.results[Len(retry.results)].raised IN
       IF retry.attempt + 1 < _MAX_RETRIES
         THEN retry' = [ retry EXCEPT !.pc = "fn", !.attempt = @ + 1,
                                      !.last_exc = Some(e) ]
         ELSE retry' = [ retry EXCEPT !.pc = "raised", !.attempt = @ + 1,
                                      !.last_exc = Some(e),
                                      !.out = Some(Raised(e)) ]
  /\ UNCHANGED << config, firings, pipeline, users, schedule, last_update, saved_jobs, response >>

InitRetry ==
  /\ GOOGLE_API_KEY = TRUE
  /\ SMTP_EMAIL = TRUE
  /\ SMTP_PASSWORD = TRUE
  /\ app_config = [ match_threshold |-> 75 ]
  /\ jobs = << >>
  /\ uuids = 0
  /\ searches = << >>
  /\ tasks = << >>
  /\ calls = << >>
  /\ seen = << >>
  /\ InitOutside

GeminiCallWithRetry == gemini_call_with_retry
RetryFnReturns == \E v \in GeminiResponses : retry_fn_returns(v)
RetryFnRaises == \E e \in GeminiErrors : retry_fn_raises(e)
RetrySleepReturns == retry_sleep_returns

NextRetry ==
  \/ GeminiCallWithRetry
  \/ RetryFnReturns
  \/ RetryFnRaises
  \/ RetrySleepReturns

SpecRetry == InitRetry /\ [][NextRetry]_vars

\* ---- update_job called on its own ----------------------------------------
\* the keyword arguments the pipelines pass to update_job
UpdateKwargs ==
  { [ status |-> "scoring" ],
    [ status |-> "error", error |-> << "Scoring:", "Expecting value" >> ],
    [ status |-> "emailed" ] }
    \cup { ScoreFields(sd) : sd \in ScoreResults }
    \cup { TailorFields(td) : td \in TailorResults }

\* update_job(job_id, **kwargs), remembering the call and the record it found
update_job_call(job_id, kwargs) ==
  /\ job_id \in DOMAIN jobs => jobs[job_id].updated_at < MaxUpdates
  /\ jobs' = update_job(jobs, job_id, kwargs)
  /\ seen' = IF "status" \in DOMAIN kwargs THEN Saw(job_id, kwargs.status) ELSE seen
  /\ last_update' = Some([ job_id |-> job_id, kwargs |-> kwargs,
                           before |-> IF job_id \in DOMAIN jobs
                                        THEN Some(jobs[job_id]) ELSE None ])
  /\ UNCHANGED << config, users, schedule, retry, saved_jobs, response, firings, uuids,
                  searches, tasks, calls >>

InitStore ==
  /\ GOOGLE_API_KEY = TRUE
  /\ SMTP_EMAIL = TRUE
  /\ SMTP_PASSWORD = TRUE
  /\ app_config = [ match_threshold |-> 75 ]
  /\ jobs = << >>
  /\ uuids = 0
  /\ searches = << >>
  /\ tasks = << >>
  /\ calls = << >>
  /\ seen = << >>
  /\ InitOutside

\* one record is registered, by POST /pipeline
StoreRunPipeline == uuids = 0 /\ run_pipeline
\* update_job is called with an id the store holds or does not hold
UpdateJobCall ==
  \E job_id \in 1..2 : \E kwargs \in UpdateKwargs : update_job_call(job_id, kwargs)

NextStore ==
  \/ StoreRunPipeline
  \/ UpdateJobCall

SpecStore == InitStore /\ [][NextStore]_vars

\* ---- schedules: routers/schedule.py and services/scheduler.py ------------
\* run_time is a string, kept as the sequence of its characters
Digits == << "0", "1", "2", "3", "4", "5", "6", "7", "8", "9" >>
\* the run_time values a client sends: "09:00", "18:30" and "9am"
RunTimes ==
  { << "0", "9", ":", "0", "0" >>,
    << "1", "8", ":", "3", "0" >>,
    << "9", "a", "m" >> }
SchedulePayloads == [ run_time : RunTimes, enabled : BOOLEAN ]

\* run_time.split(":")
RECURSIVE split(_, _)
split(str, sep) ==
  IF \A i \in DOMAIN str : str[i] # sep
    THEN << str >>
    ELSE LET i == CHOOSE k \in DOMAIN str :
                    str[k] = sep /\ \A m \in 1..(k - 1) : str[m] # sep
         IN  << SubSeq(str, 1, i - 1) >> \o split(SubSeq(str, i + 1, Len(str)), sep)

IsDigit(c) == \E d \in DOMAIN Digits : Digits[d] = c
DigitValue(c) == (CHOOSE d \in DOMAIN Digits : Digits[d] = c) - 1

\* int(text) of a text of decimal digits; any other text makes int raise
IsInt(text) == text # << >> /\ \A i \in DOMAIN text : IsDigit(text[i])
RECURSIVE int(_)
int(text) ==
  IF text = << >> THEN 0
  ELSE 10 * int(SubSeq(text, 1, Len(text) - 1)) + DigitValue(text[Len(text)])

\* hour, minute = run_time.split(":"); CronTrigger(hour=int(hour),
\* minute=int(minute)): the trigger, or None where the unpacking, int or
\* CronTrigger raises ValueError
CronTrigger(run_time) ==
  LET parts == split(run_time, ":") IN
    IF Len(parts) # 2 \/ ~IsInt(parts[1]) \/ ~IsInt(parts[2])
      THEN None
      ELSE LET hour == int(parts[1])
               minute == int(parts[2])
           IN  IF hour \in 0..23 /\ minute \in 0..59
                 THEN Some([ hour |-> hour, minute |-> minute ])
                 ELSE None

\* scheduler.remove_job(job_id) if scheduler.get_job(job_id)
remove_schedule(sched, user_id) ==
  [ u \in DOMAIN sched \ { user_id } |-> sched[u] ]

\* faulty variant: a disabled schedule keeps the job it had
upsert_schedule_keeps(sched, user_id, run_time, enabled) ==
  IF ~enabled
    THEN [ scheduler |-> sched, raised |-> FALSE ]
    ELSE IF CronTrigger(run_time) = None
      THEN [ scheduler |-> remove_schedule(sched, user_id), raised |-> TRUE ]
      ELSE [ scheduler |->
               [ u \in DOMAIN sched \cup { user_id } |->
                   IF u = user_id THEN CronTrigger(run_time)[1] ELSE sched[u] ],
             raised |-> FALSE ]

\* upsert_schedule: the job of the user is removed and, if enabled, added
\* again with the new trigger; the result is the scheduler afterwards and
\* whether the call raised
upsert_schedule(sched, user_id, run_time, enabled) ==
  IF ~enabled
    THEN [ scheduler |-> remove_schedule(sched, user_id), raised |-> FALSE ]
    ELSE IF CronTrigger(run_time) = None
      THEN [ scheduler |-> remove_schedule(sched, user_id), raised |-> TRUE ]
      ELSE [ scheduler |->
               [ u \in DOMAIN sched \cup { user_id } |->
                   IF u = user_id THEN CronTrigger(run_time)[1] ELSE sched[u] ],
             raised |-> FALSE ]

\* faulty variant: the commit always stores a new row for the user
Commit_insert(current_user, payload) ==
  [ u \in DOMAIN user_schedules \cup { current_user } |->
      IF u = current_user
        THEN [ id |-> rows + 1, run_time |-> payload.run_time,
               enabled |-> payload.enabled, last_run |-> None ]
        ELSE user_schedules[u] ]

\* the row set_schedule commits for current_user
Commit(current_user, payload) ==
  IF current_user \in DOMAIN user_schedules
    THEN [ user_schedules EXCEPT ![current_user].run_time = payload.run_time,
                                 ![current_user].enabled = payload.enabled ]
    ELSE [ u \in DOMAIN user_schedules \cup { current_user } |->
             IF u = current_user
               THEN [ id |-> rows + 1, run_time |-> payload.run_time,
                      enabled |-> payload.enabled, last_run |-> None ]
               ELSE user_schedules[u] ]

\* PUT /schedule handled from start to end with no other request in between
set_schedule(current_user, payload) ==
  /\ running
  /\ requests = << >>
  /\ current_user \notin DOMAIN user_schedules => rows < MaxRows
  /\ user_schedules' = Commit(current_user, payload)
  /\ rows' = IF current_user \in DOMAIN user_schedules THEN rows ELSE rows + 1
  /\ LET r == upsert_schedule(scheduler, current_user, payload.run_time,
                              payload.enabled)
     IN  /\ scheduler' = r.scheduler
         /\ failed' = IF r.raised THEN failed \cup { current_user }
                                  ELSE failed \ { current_user }
  /\ UNCHANGED << beside_schedule, requests, boots,
                  running >>

\* DELETE /schedule handled from start to end
delete_schedule(current_user) ==
  /\ running
  /\ requests = << >>
  /\ user_schedules' = [ u \in DOMAIN user_schedules \ { current_user } |->
                           user_schedules[u] ]
  /\ scheduler' = remove_schedule(scheduler, current_user)
  /\ failed' = failed \ { current_user }
  /\ UNCHANGED << beside_schedule, requests, rows,
                  boots, running >>

\* the users load_all_schedules queries
EnabledUsers == { u \in DOMAIN user_schedules : user_schedules[u].enabled }

\* faulty variant: the scheduler keeps its jobs over the restart
lifespan_keeps_jobs ==
  /\ boots < MaxBoots
  /\ boots' = boots + 1
  /\ requests' = << >>
  /\ IF \A u \in EnabledUsers : CronTrigger(user_schedules[u].run_time) # None
       THEN /\ scheduler' = [ u \in DOMAIN scheduler \cup EnabledUsers |->
                                IF u \in EnabledUsers
                                  THEN CronTrigger(user_schedules[u].run_time)[1]
                                  ELSE scheduler[u] ]
            /\ running' = TRUE
       ELSE /\ scheduler' = << >>
            /\ running' = FALSE
  /\ UNCHANGED << beside_schedule, user_schedules,
                  rows, failed >>

\* the process is started again: the requests under way are gone, the new
\* scheduler is empty and load_all_schedules adds a job for every enabled
\* row; if a run_time does not parse, upsert_schedule raises out of lifespan
\* and the application does not come up
lifespan ==
  /\ boots < MaxBoots
  /\ boots' = boots + 1
  /\ requests' = << >>
  /\ IF \A u \in EnabledUsers : CronTrigger(user_schedules[u].run_time) # None
       THEN /\ scheduler' = [ u \in EnabledUsers |->
                                CronTrigger(user_schedules[u].run_time)[1] ]
            /\ running' = TRUE
       ELSE /\ scheduler' = << >>
            /\ running' = FALSE
  /\ UNCHANGED << beside_schedule, user_schedules,
                  rows, failed >>

InitSchedule ==
  /\ GOOGLE_API_KEY = TRUE
  /\ SMTP_EMAIL = TRUE
  /\ SMTP_PASSWORD = TRUE
  /\ app_config = [ match_threshold |-> 75 ]
  /\ jobs = << >>
  /\ uuids = 0
  /\ searches = << >>
  /\ tasks = << >>
  /\ calls = << >>
  /\ seen = << >>
  /\ InitOutside

SetSchedule == \E u \in Users : \E payload \in SchedulePayloads : set_schedule(u, payload)
DeleteSchedule == \E u \in Users : delete_schedule(u)
Lifespan == lifespan

\* the schedule requests arrive one after the other
NextSchedule ==
  \/ SetSchedule
  \/ DeleteSchedule
  \/ Lifespan

SpecSchedule == InitSchedule /\ [][NextSchedule]_vars

\* ---- schedule requests handled by concurrent worker threads --------------
\* set_schedule and delete_schedule are plain functions, which the framework
\* runs in its thread pool; each request has its own session.  A request is
\* followed through its database steps (query, commit, refresh) and its call
\* into the scheduler, which is taken as one step.  Requests of different
\* users touch different rows and different scheduler jobs, so the requests
\* of one user are followed, and they carry the default run_time "09:00" of
\* ScheduleRequest.
ThreadUsers == { "u1" }
DefaultRunTime == << "0", "9", ":", "0", "0" >>
ThreadPayloads == [ run_time : { DefaultRunTime }, enabled : BOOLEAN ]

\* the key of the next request
NextRequest == CHOOSE w \in 1..MaxRequests : w \notin DOMAIN requests

Found(current_user) ==
  IF current_user \in DOMAIN user_schedules
    THEN Some(user_schedules[current_user].id) ELSE None

\* the INSERTs that are still to be committed
PendingInserts ==
  Cardinality({ w \in DOMAIN requests :
                  requests[w].pc = "commit" /\ requests[w].found = None })

\* the request w is over; it raised or returned
Finish(w, raised) ==
  /\ requests' = [ x \in DOMAIN requests \ { w } |-> requests[x] ]
  /\ failed' = IF raised THEN failed \cup { requests[w].user }
                         ELSE failed \ { requests[w].user }

\* the row of request w is still the row it loaded
RowIsThere(w) ==
  /\ requests[w].user \in DOMAIN user_schedules
  /\ Some(user_schedules[requests[w].user].id) = requests[w].found

\* set_schedule: s = db.query(UserSchedule)...first()
set_schedule_query(current_user, payload) ==
  /\ running
  /\ Cardinality(DOMAIN requests) < MaxRequests
  /\ current_user \notin DOMAIN user_schedules => rows + PendingInserts < MaxRows
  /\ requests' = [ w \in DOMAIN requests \cup { NextRequest } |->
                     IF w = NextRequest
                       THEN [ op |-> "set_schedule", user |-> current_user,
                              payload |-> payload, found |-> Found(current_user),
                              s |-> None, pc |-> "commit" ]
                       ELSE requests[w] ]
  /\ UNCHANGED << beside_schedule, user_schedules,
                  scheduler, rows, boots, running, failed >>

\* set_schedule: db.commit().  The INSERT of a second row for the user breaks
\* the unique constraint, the UPDATE of a row that is gone matches nothing;
\* both raise
set_schedule_commit(w) ==
  /\ w \in DOMAIN requests
  /\ requests[w].op = "set_schedule" /\ requests[w].pc = "commit"
  /\ LET u == requests[w].user IN
       IF requests[w].found = None
         THEN IF u \in DOMAIN user_schedules
                THEN /\ Finish(w, TRUE)
                     /\ UNCHANGED << user_schedules, rows >>
                ELSE /\ user_schedules' = Commit(u, requests[w].payload)
                     /\ rows' = rows + 1
                     /\ requests' = [ requests EXCEPT ![w].pc = "refresh",
                                                      ![w].found = Some(rows + 1) ]
                     /\ UNCHANGED failed
         ELSE IF RowIsThere(w)
                THEN /\ user_schedules' = Commit(u, requests[w].payload)
                     /\ requests' = [ requests EXCEPT ![w].pc = "refresh" ]
                     /\ UNCHANGED << rows, failed >>
                ELSE /\ Finish(w, TRUE)
                     /\ UNCHANGED << user_schedules, rows >>
  /\ UNCHANGED << beside_schedule, scheduler, boots,
                  running >>

\* set_schedule: db.refresh(s) loads the row as it is now; it raises if the
\* row is gone
set_schedule_refresh(w) ==
  /\ w \in DOMAIN requests
  /\ requests[w].op = "set_schedule" /\ requests[w].pc = "refresh"
  /\ IF RowIsThere(w)
       THEN /\ requests' = [ requests EXCEPT
                               ![w].pc = "upsert_schedule",
                               ![w].s = Some([ run_time |-> user_schedules[requests[w].user].run_time,
                                               enabled |-> user_schedules[requests[w].user].enabled ]) ]
            /\ UNCHANGED failed
       ELSE Finish(w, TRUE)
  /\ UNCHANGED << beside_schedule, user_schedules,
                  scheduler, rows, boots, running >>

\* set_schedule: upsert_schedule(current_user.id, s.run_time, s.enabled) and
\* the response
set_schedule_upsert(w) ==
  /\ w \in DOMAIN requests
  /\ requests[w].op = "set_schedule" /\ requests[w].pc = "upsert_schedule"
  /\ LET r == upsert_schedule(scheduler, requests[w].user,
                              requests[w].s[1].run_time, requests[w].s[1].enabled)
     IN  /\ scheduler' = r.scheduler
         /\ Finish(w, r.raised)
  /\ UNCHANGED << beside_schedule, user_schedules,
                  rows, boots, running >>

\* delete_schedule: s = db.query(UserSchedule)...first()
delete_schedule_query(current_user) ==
  /\ running
  /\ Cardinality(DOMAIN requests) < MaxRequests
  /\ requests' = [ w \in DOMAIN requests \cup { NextRequest } |->
                     IF w = NextRequest
                       THEN [ op |-> "delete_schedule", user |-> current_user,
                              payload |-> None, found |-> Found(current_user),
                              s |-> None,
                              pc |-> IF current_user \in DOMAIN user_schedules
                                       THEN "commit" ELSE "remove_schedule" ]
                       ELSE requests[w] ]
  /\ UNCHANGED << beside_schedule, user_schedules,
                  scheduler, rows, boots, running, failed >>

\* delete_schedule: db.delete(s); db.commit().  A DELETE that matches no row
\* only warns
delete_schedule_commit(w) ==
  /\ w \in DOMAIN requests
  /\ requests[w].op = "delete_schedule" /\ requests[w].pc = "commit"
  /\ user_schedules' =
       IF RowIsThere(w)
         THEN [ u \in DOMAIN user_schedules \ { requests[w].user } |-> user_schedules[u] ]
         ELSE user_schedules
  /\ requests' = [ requests EXCEPT ![w].pc = "remove_schedule" ]
  /\ UNCHANGED << beside_schedule, scheduler, rows,
                  boots, running, failed >>

\* delete_schedule: remove_schedule(current_user.id) and the response
delete_schedule_remove(w) ==
  /\ w \in DOMAIN requests
  /\ requests[w].op = "delete_schedule" /\ requests[w].pc = "remove_schedule"
  /\ scheduler' = remove_schedule(scheduler, requests[w].user)
  /\ Finish(w, FALSE)
  /\ UNCHANGED << beside_schedule, user_schedules,
                  rows, boots, running >>

SetScheduleQuery ==
  \E u \in ThreadUsers : \E payload \in ThreadPayloads : set_schedule_query(u, payload)
SetScheduleCommit == \E w \in DOMAIN requests : set_schedule_commit(w)
SetScheduleRefresh == \E w \in DOMAIN requests : set_schedule_refresh(w)
SetScheduleUpsert == \E w \in DOMAIN requests : set_schedule_upsert(w)
DeleteScheduleQuery == \E u \in ThreadUsers : delete_schedule_query(u)
DeleteScheduleCommit == \E w \in DOMAIN requests : delete_schedule_commit(w)
DeleteScheduleRemove == \E w \in DOMAIN requests : delete_schedule_remove(w)

NextThreads ==
  \/ SetScheduleQuery
  \/ SetScheduleCommit
  \/ SetScheduleRefresh
  \/ SetScheduleUpsert
  \/ DeleteScheduleQuery
  \/ DeleteScheduleCommit
  \/ DeleteScheduleRemove
  \/ Lifespan

SpecThreads == InitSchedule /\ [][NextThreads]_vars

\* ---- POST /jobs: routers/jobs.py create_job --------------------------------
\* the bodies a client posts (JobCreate has no status field)
JobCreates ==
  { [ title |-> t, company |-> "Acme", url |-> "", resume |-> "resume",
      job_description |-> "jd", recipient_email |-> "to",
      applicant_name |-> "Applicant" ] : t \in { "Engineer", "Analyst" } }

\* the row Job(id=..., user_id=current_user.id, created_at=now, updated_at=now,
\* **payload.model_dump()) becomes: every column the call does not name takes
\* its default of models.Job
JobRow(job_id, user_id, payload) ==
  [ id |-> job_id, user_id |-> Some(user_id), title |-> payload.title,
    company |-> payload.company, url |-> payload.url, resume |-> payload.resume,
    job_description |-> payload.job_description,
    recipient_email |-> payload.recipient_email,
    applicant_name |-> payload.applicant_name,
    status |-> "pending", match_score |-> None, reasoning |-> None,
    missing_skills |-> << >>, resume_suggestions |-> None,
    cover_letter |-> None, created_at |-> 0, updated_at |-> 0,
    error |-> None, platform |-> "", location |-> "", date_posted |-> "" ]

\* POST /jobs by current_user: the row is added and committed; no pipeline is
\* started for it
create_job(current_user, payload) ==
  /\ LET j == uuids + 1 IN
       /\ jobs' = [ k \in DOMAIN jobs \cup { j } |->
                     IF k = j THEN JobRow(j, current_user, payload) ELSE jobs[k] ]
       /\ seen' = [ k \in DOMAIN seen \cup { j } |->
                     IF k = j THEN << "pending" >> ELSE seen[k] ]
  /\ uuids' = uuids + 1
  /\ UNCHANGED << env, searches, tasks, calls >>

\* ---- the three ways a job record comes into being -------------------------
InitJobs ==
  /\ GOOGLE_API_KEY = TRUE
  /\ SMTP_EMAIL = TRUE
  /\ SMTP_PASSWORD = TRUE
  /\ app_config = [ match_threshold |-> 75 ]
  /\ jobs = << >>
  /\ uuids = 0
  /\ searches = << >>
  /\ tasks = << >>
  /\ calls = << >>
  /\ seen = << >>
  /\ InitOutside

CreateJob ==
  \E u \in Users : \E payload \in JobCreates :
    uuids < MaxJobs /\ create_job(u, payload)

NextJobs ==
  \/ CreateJob
  \/ RunPipeline
  \/ RunPipelineStart
  \/ SearchJobs
  \/ RunSearchPipeline
  \/ ProcessOne

SpecJobs == InitJobs /\ [][NextJobs]_vars

\* ---- scoring with whatever integer the LLM answers ------------------------
\* score_resume returns int(data["match_score"]) as it comes, and the
\* orchestrators write it to the record; here the scoring stage of the three
\* orchestrators is run with every answer of ScoreReturns.
InitScores ==
  /\ GOOGLE_API_KEY = TRUE
  /\ SMTP_EMAIL = TRUE
  /\ SMTP_PASSWORD = TRUE
  /\ app_config = [ match_threshold |-> 75 ]
  /\ jobs = << >>
  /\ uuids = 0
  /\ searches = << >>
  /\ tasks = << >>
  /\ calls = << >>
  /\ seen = << >>
  /\ InitOutside

AnyPipelineJobScored ==
  \E j \in JobIds : \E sd \in ScoreReturns : pipeline_job_scored(j, sd)
AnyScoreOnlyScored ==
  \E j \in JobIds : \E sd \in ScoreReturns : score_only_scored(j, sd)
AnyRunPipelineScored ==
  \E j \in JobIds : \E sd \in HttpScoreReturns : run_pipeline_scored(j, sd)

NextScores ==
  \/ SearchJobs
  \/ RunSearchPipeline
  \/ ProcessOne
  \/ AnyPipelineJobScored
  \/ AnyScoreOnlyScored
  \/ RunPipeline
  \/ RunPipelineStart
  \/ AnyRunPipelineScored

SpecScores == InitScores /\ [][NextScores]_vars

\* ---- one batch of CapPostings postings -----------------------------------
\* A batch larger than the semaphore, in one environment (key set, no SMTP
\* password, threshold 75) and with one answer per stage: scoring raises or
\* returns a score that passes the gate, tailoring returns its texts, and the
\* send is skipped.

InitCap ==
  /\ GOOGLE_API_KEY = TRUE
  /\ SMTP_EMAIL = TRUE
  /\ SMTP_PASSWORD = FALSE
  /\ app_config = [ match_threshold |-> 75 ]
  /\ jobs = << >>
  /\ uuids = 0
  /\ searches = << >>
  /\ tasks = << >>
  /\ calls = << >>
  /\ seen = << >>
  /\ InitOutside

CapSearchJobs == DOMAIN searches = { } /\ search_jobs(TRUE)
CapRunSearchPipeline == \E b \in DOMAIN searches : run_search_pipeline(b, Scraped(CapPostings))
CapScoreRaises == \E j \in JobIds : \E e \in ScoreRaises : pipeline_job_score_raises(j, e)
CapScored ==
  \E j \in JobIds : \E sd \in PromptedScoreReturns :
    ~BelowThreshold(sd.match_score) /\ pipeline_job_scored(j, sd)
CapTailored ==
  \E j \in JobIds : \E td \in TailorReturns :
    td.cover_letter # "" /\ pipeline_job_tailored(j, td)

NextCap ==
  \/ CapSearchJobs
  \/ CapRunSearchPipeline
  \/ ProcessOne
  \/ CapScoreRaises
  \/ CapScored
  \/ CapTailored
  \/ PipelineJobEmailReturns

SpecCap == InitCap /\ [][NextCap]_vars

\* ---- the batch of SpecCap under a fair event loop --------------------------
\* asyncio.gather has created one process_one per job; the event loop runs
\* every coroutine that can go on, and every stage call comes back.  What
\* job j can do next:
CapJobStep(j) ==
  \/ process_one(j)
  \/ \E e \in ScoreRaises : pipeline_job_score_raises(j, e)
  \/ \E sd \in PromptedScoreReturns :
       ~BelowThreshold(sd.match_score) /\ pipeline_job_scored(j, sd)
  \/ \E td \in TailorReturns : td.cover_letter # "" /\ pipeline_job_tailored(j, td)
  \/ \E r \in EmailReturns : pipeline_job_email_returns(j, r)

\* the event loop always runs one of the coroutines that can go on
FairCap ==
  InitCap /\ [][NextCap]_vars /\ WF_vars(\E j \in 1..CapPostings : CapJobStep(j))

\* ---- a pipeline of a batch run on its own -----------------------------------
\* The writes process_one makes for job j, given what its stage calls came
\* to (sd, td, result, or the exception e of the call that raised), applied
\* in program order to a store that holds nothing but the record registered
\* for j.
Position(j) ==
  CHOOSE p \in DOMAIN searches[tasks[j].batch].job_ids :
    searches[tasks[j].batch].job_ids[p] = j

RunAlone(j) ==
  LET t == tasks[j]
      registered == [ k \in { j } |-> SearchRecord(j, Position(j)) ]
      scoring == update_job(registered, j, [ status |-> "scoring" ])
      full ==
        IF t.sd = None
          THEN update_job(scoring, j,
                 [ status |-> "error", error |-> << "Scoring:", t.e[1] >> ])
          ELSE LET scored == update_job(scoring, j, ScoreFields(t.sd[1])) IN
            IF BelowThreshold(t.sd[1].match_score)
              THEN update_job(scored, j, [ status |-> "below_threshold" ])
              ELSE LET tailoring == update_job(scored, j, [ status |-> "tailoring" ]) IN
                IF t.td = None
                  THEN update_job(tailoring, j,
                         [ status |-> "error", error |-> << "Tailoring:", t.e[1] >> ])
                  ELSE LET emailing ==
                             update_job(update_job(tailoring, j, TailorFields(t.td[1])),
                                        j, [ status |-> "emailing" ])
                       IN  IF t.result = None
                             THEN update_job(emailing, j,
                                    [ status |-> "error", error |-> << "Email:", t.e[1] >> ])
                             ELSE update_job(emailing, j,
                                    [ status |-> IF t.result[1].status = "skipped"
                                                   THEN "scored" ELSE "emailed" ])
      score_only ==
        IF t.sd = None
          THEN update_job(scoring, j, [ status |-> "error", error |-> << t.e[1] >> ])
          ELSE update_job(scoring, j,
                 [ match_score |-> Some(t.sd[1].match_score),
                   reasoning |-> Some(t.sd[1].reasoning),
                   missing_skills |-> t.sd[1].missing_skills,
                   status |-> IF BelowThreshold(t.sd[1].match_score)
                                THEN "below_threshold" ELSE "scored" ])
  IN  IF t.kind = "pipeline_job" THEN full[j] ELSE score_only[j]

\* ---- the jobs API by owner: routers/jobs.py, routers/saved_jobs.py ----------

\* db.query(Job).filter(Job.id == job_id, Job.user_id == current_user.id)
\* .first(), without the filter on the owner (faulty variant)
query_job_by_id(js, job_id, current_user) ==
  IF job_id \in DOMAIN js THEN Some(js[job_id]) ELSE None

\* db.query(Job).filter(Job.id == job_id, Job.user_id == current_user.id)
\* .first(): the row, or None
query_job(js, job_id, current_user) ==
  IF job_id \in DOMAIN js /\ js[job_id].user_id = Some(current_user)
    THEN Some(js[job_id])
    ELSE None

\* GET /jobs by current_user: the rows whose owner is current_user (they come
\* ordered by created_at; the model keeps which rows are listed)
list_jobs(js, current_user) ==
  { js[j] : j \in { k \in DOMAIN js : js[k].user_id = Some(current_user) } }

\* the answers of the endpoints
Ok(status_code, body) == [ status_code |-> status_code, body |-> body ]
Answered(op, current_user, job_id, answer) ==
  Some([ op |-> op, current_user |-> current_user, job_id |-> job_id,
         answer |-> answer ])

\* GET /jobs answered
list_jobs_request(current_user) ==
  /\ response' = Answered("list_jobs", current_user, 0,
                          Ok(200, list_jobs(jobs, current_user)))
  /\ UNCHANGED << config, firings, pipeline, users, schedule, retry, last_update, saved_jobs >>

\* GET /jobs/{job_id} answered
get_job_request(job_id, current_user) ==
  /\ response' = Answered("get_job", current_user, job_id,
                          IF query_job(jobs, job_id, current_user) = None
                            THEN NotFound
                            ELSE Ok(200, get_job(jobs, job_id, current_user)))
  /\ UNCHANGED << config, firings, pipeline, users, schedule, retry, last_update, saved_jobs >>

\* DELETE /jobs/{job_id}: 404 unless current_user owns the row; db.delete(job)
\* removes the row and, by the cascade of Job.saved_by, its saved_jobs rows
delete_job(job_id, current_user) ==
  /\ IF query_job(jobs, job_id, current_user) = None
       THEN /\ response' = Answered("delete_job", current_user, job_id, NotFound)
            /\ UNCHANGED << jobs, saved_jobs >>
       ELSE /\ jobs' = [ k \in DOMAIN jobs \ { job_id } |-> jobs[k] ]
            /\ saved_jobs' = { s \in saved_jobs : s.job_id # job_id }
            /\ response' = Answered("delete_job", current_user, job_id,
                                    Ok(200, [ deleted |-> job_id ]))
  /\ UNCHANGED << config, firings, users, schedule, retry, last_update, uuids, searches,
                  tasks, calls, seen >>

\* POST /saved/{job_id}: 404 unless current_user owns the row; the bookmark is
\* added unless current_user has it already
save_job(job_id, current_user) ==
  /\ IF query_job(jobs, job_id, current_user) = None
       THEN /\ response' = Answered("save_job", current_user, job_id, NotFound)
            /\ UNCHANGED saved_jobs
       ELSE /\ saved_jobs' = saved_jobs \cup
                               { [ user_id |-> current_user, job_id |-> job_id ] }
            /\ response' = Answered("save_job", current_user, job_id,
                                    Ok(201, [ saved |-> TRUE, job_id |-> job_id ]))
  /\ UNCHANGED << config, firings, pipeline, users, schedule, retry, last_update >>

\* two users create jobs and read, delete and bookmark by id, also with ids
\* of the other user's jobs and with ids no job has
ListJobs == \E u \in Users : list_jobs_request(u)
GetJob == \E job_id \in 1..MaxJobs : \E u \in Users : get_job_request(job_id, u)
DeleteJob == \E job_id \in 1..MaxJobs : \E u \in Users : delete_job(job_id, u)
SaveJob == \E job_id \in 1..MaxJobs : \E u \in Users : save_job(job_id, u)

NextOwners ==
  \/ CreateJob
  \/ ListJobs
  \/ GetJob
  \/ DeleteJob
  \/ SaveJob

SpecOwners == InitJobs /\ [][NextOwners]_vars

\* ---- the trigger of a user fires: services/scheduler.py _run_user_search ----

\* db.query(UserSchedule).filter(UserSchedule.user_id == user_id).first(),
\* without the filter on enabled (faulty variant)
query_schedule_any(user_id) ==
  IF user_id \in DOMAIN user_schedules
    THEN Some(user_schedules[user_id].id)
    ELSE None

\* db.query(UserSchedule).filter(UserSchedule.user_id == user_id,
\* UserSchedule.enabled == True).first(): the id of the row, or None
query_schedule(user_id) ==
  IF user_id \in DOMAIN user_schedules /\ user_schedules[user_id].enabled
    THEN Some(user_schedules[user_id].id)
    ELSE None

\* the trigger of user_id fires (the scheduler runs one instance of a job at a
\* time): _run_user_search loads the enabled row and the user and returns if
\* either is missing
run_user_search(user_id) ==
  /\ running
  /\ user_id \in DOMAIN scheduler
  /\ user_id \in DOMAIN firings => firings[user_id].pc = "returned"
  /\ LET sched == query_schedule(user_id)
         go == sched # None /\ user_id \in DOMAIN users
     IN  /\ go => Cardinality(DOMAIN searches) < MaxSearches
         /\ firings' = [ u \in DOMAIN firings \cup { user_id } |->
                           IF u = user_id
                             THEN [ pc |-> IF go THEN "commit" ELSE "returned",
                                    sched |-> sched, started |-> FALSE ]
                             ELSE firings[u] ]
  /\ UNCHANGED << config, users, schedule, retry, last_update, saved_jobs, response,
                  pipeline >>

\* sched.last_run = utcnow(); db.commit(); then _run_search_pipeline(request)
\* is run.  The UPDATE of a row that is gone raises, which "except Exception"
\* logs, and no run is started.  The time written is the number of the run;
\* the rows of the model keep the default of auto_pipeline, which is True.
run_user_search_commit(user_id) ==
  /\ user_id \in DOMAIN firings
  /\ firings[user_id].pc = "commit"
  /\ IF /\ user_id \in DOMAIN user_schedules
        /\ Some(user_schedules[user_id].id) = firings[user_id].sched
       THEN /\ user_schedules' =
                 [ user_schedules EXCEPT ![user_id].last_run = Some(NextBatch) ]
            /\ firings' = [ firings EXCEPT ![user_id].pc = "returned",
                                           ![user_id].started = TRUE ]
            /\ searches' = [ b \in DOMAIN searches \cup { NextBatch } |->
                               IF b = NextBatch
                                 THEN [ auto_pipeline |-> TRUE, phase |-> "scraping",
                                        scrape |-> None,
                                        sem |-> SemaphoreValue, job_ids |-> << >> ]
                                 ELSE searches[b] ]
       ELSE /\ firings' = [ firings EXCEPT ![user_id].pc = "returned" ]
            /\ UNCHANGED << user_schedules, searches >>
  /\ UNCHANGED << config, users, retry, last_update, saved_jobs, response, scheduler,
                  requests, rows, boots, running, failed, jobs, uuids, tasks, calls,
                  seen >>

\* the PUT requests of one user are handled in the thread pool and a DELETE
\* is handled while no PUT is under way; the scheduler fires the user's
\* trigger in its own thread, and a run that was started scrapes and
\* registers its postings
RunUserSearch == \E u \in ThreadUsers : run_user_search(u)
RunUserSearchCommit == \E u \in ThreadUsers : run_user_search_commit(u)
\* the scrape of a scheduled run returns one posting
FireRunSearchPipeline ==
  \E b \in DOMAIN searches : uuids < MaxJobs /\ run_search_pipeline(b, Scraped(1))

NextFire ==
  \/ SetScheduleQuery
  \/ SetScheduleCommit
  \/ SetScheduleRefresh
  \/ SetScheduleUpsert
  \/ DeleteSchedule
  \/ RunUserSearch
  \/ RunUserSearchCommit
  \/ FireRunSearchPipeline

SpecFire == InitSchedule /\ [][NextFire]_vars

\* ---- a job is deleted while updates for it keep coming ----------------------

\* the update a pipeline makes when its scoring fails
FailingRunKwargs ==
  { [ status |-> "error", error |-> << "Scoring:", "Expecting value" >> ] }

\* update_job is called with an id that was handed out, whether the row is
\* still there or not
DeleteUpdateJobCall ==
  \E job_id \in 1..uuids : \E kwargs \in FailingRunKwargs : update_job_call(job_id, kwargs)

\* a user creates a job, and the owner of a job deletes it
OwnerCreatesJob ==
  \E u \in Users : \E payload \in { p \in JobCreates : p.title = "Engineer" } :
    uuids < MaxJobs /\ create_job(u, payload)
OwnerDeletesJob ==
  \E job_id \in DOMAIN jobs : \E u \in Users :
    jobs[job_id].user_id = Some(u) /\ delete_job(job_id, u)

NextDelete ==
  \/ OwnerCreatesJob
  \/ OwnerDeletesJob
  \/ DeleteUpdateJobCall

SpecDelete == InitJobs /\ [][NextDelete]_vars

\* ---- tailor_documents call by call: services/tailor_service.py --------------
\* In the actions above tailor_documents returns or raises as a whole.  Here
\* the pipeline of a batch job is followed through its two LLM calls.

\* what the two calls may answer: (response.text or "").strip()
SuggestionTexts == { td.resume_suggestions : td \in TailorResults }
CoverLetterTexts == { td.cover_letter : td \in TailorResults }

\* the first call returned: suggestions is kept in a local of
\* tailor_documents and the second call is made
tailor_suggestions_returned(j, suggestions) ==
  /\ j \in DOMAIN tasks
  /\ tasks[j].kind = "pipeline_job"
  /\ tasks[j].pc = "tailor_documents"
  /\ GOOGLE_API_KEY
  /\ tasks' = [ tasks EXCEPT ![j].pc = "cover_letter",
                             ![j].td = Some([ resume_suggestions |-> suggestions ]) ]
  /\ UNCHANGED << env, jobs, uuids, searches, calls, seen >>

\* faulty variant: the suggestions are written although the second call
\* raised
tailor_cover_letter_raised_keeps(j, e) ==
  /\ j \in DOMAIN tasks
  /\ tasks[j].kind = "pipeline_job"
  /\ tasks[j].pc = "cover_letter"
  /\ jobs' = update_job(update_job(jobs, j,
                 [ resume_suggestions |-> Some(tasks[j].td[1].resume_suggestions) ]), j,
                 [ status |-> "error", error |-> << "Tailoring:", e >> ])
  /\ seen' = Saw(j, "error")
  /\ tasks' = [ tasks EXCEPT ![j].pc = "done", ![j].e = Some(e) ]
  /\ searches' = Release(j)
  /\ UNCHANGED << env, uuids, calls >>

\* the second call raised e: tailor_documents raises it, the suggestions are
\* lost with its locals and _pipeline_job writes the error
tailor_cover_letter_raised(j, e) ==
  /\ j \in DOMAIN tasks
  /\ tasks[j].kind = "pipeline_job"
  /\ tasks[j].pc = "cover_letter"
  /\ jobs' = update_job(jobs, j, [ status |-> "error", error |-> << "Tailoring:", e >> ])
  /\ seen' = Saw(j, "error")
  /\ tasks' = [ tasks EXCEPT ![j].pc = "done", ![j].e = Some(e) ]
  /\ searches' = Release(j)
  /\ UNCHANGED << env, uuids, calls >>

\* the second call returned: tailor_documents returns both texts, they are
\* written in one update, then status "emailing", and send_match_email is
\* called
tailor_cover_letter_returned(j, cover_letter) ==
  /\ j \in DOMAIN tasks
  /\ tasks[j].kind = "pipeline_job"
  /\ tasks[j].pc = "cover_letter"
  /\ LET td == [ resume_suggestions |-> tasks[j].td[1].resume_suggestions,
                 cover_letter |-> cover_letter ]
     IN  /\ jobs' = update_job(update_job(jobs, j, TailorFields(td)), j,
                               [ status |-> "emailing" ])
         /\ tasks' = [ tasks EXCEPT ![j].pc = "send_match_email", ![j].td = Some(td) ]
  /\ seen' = Saw(j, "emailing")
  /\ calls' = [ calls EXCEPT ![j].email = @ + 1 ]
  /\ UNCHANGED << env, uuids, searches >>

TailorSearchJobs ==
  Cardinality(DOMAIN searches) < MaxSearches /\ uuids < MaxJobs /\ search_jobs(TRUE)
TailorSuggestionsReturned ==
  \E j \in JobIds : \E text \in SuggestionTexts : tailor_suggestions_returned(j, text)
TailorCoverLetterRaised ==
  \E j \in JobIds : \E e \in LlmErrors : tailor_cover_letter_raised(j, e)
TailorCoverLetterReturned ==
  \E j \in JobIds : \E text \in CoverLetterTexts : tailor_cover_letter_returned(j, text)

NextTailor ==
  \/ TailorSearchJobs
  \/ RunSearchPipeline
  \/ ProcessOne
  \/ PipelineJobScoreRaises
  \/ PipelineJobScored
  \/ PipelineJobTailorRaises
  \/ TailorSuggestionsReturned
  \/ TailorCoverLetterRaised
  \/ TailorCoverLetterReturned
  \/ PipelineJobEmailReturns
  \/ PipelineJobEmailRaises

SpecTailor == Init /\ [][NextTailor]_vars

\* ======================================================================
\* Claims
\* ======================================================================

Last(q) == q[Len(q)]
Score(j) == tasks[j].sd[1].match_score
BatchJobs == { j \in DOMAIN tasks : tasks[j].kind \in { "pipeline_job", "score_only" } }

\* ---- C1 -----------------------------------------------------------------
Edges ==
  { << "queued", "scoring" >>, << "scoring", "error" >>,
    << "scoring", "below_threshold" >>, << "scoring", "tailoring" >>,
    << "tailoring", "error" >>, << "tailoring", "emailing" >>,
    << "emailing", "error" >>, << "emailing", "scored" >>,
    << "emailing", "emailed" >> }

Rank(st) ==
  CASE st = "queued" -> 0
    [] st = "scoring" -> 1
    [] st \in { "below_threshold", "tailoring" } -> 2
    [] st = "emailing" -> 3
    [] st \in { "emailed", "scored" } -> 4
    [] OTHER -> 5

FullPipelinePassed(j) ==
  /\ tasks[j].kind = "pipeline_job"
  /\ tasks[j].sd # None
  /\ Score(j) >= app_config.match_threshold

\* C3 as claimed: a job of the full pipeline whose score reaches the
\* threshold has had tailoring invoked exactly once and the send attempted
\* exactly once when its pipeline is over.
C3_TailorOnceEmailOnce ==
  \A j \in DOMAIN tasks :
    (FullPipelinePassed(j) /\ tasks[j].pc = "done")
      => calls[j].tailor = 1 /\ calls[j].email = 1

\* C3 as amended: for such a job tailoring is invoked exactly once; the send
\* is attempted exactly once if tailoring returned and never if it raised.
C3_TailorOnceEmailIfTailored ==
  \A j \in DOMAIN tasks :
    FullPipelinePassed(j)
      => /\ calls[j].tailor = 1
         /\ calls[j].email = (IF tasks[j].td # None THEN 1 ELSE 0)
         /\ tasks[j].pc = "done" => (tasks[j].td # None \/ tasks[j].e # None)

\* one job finished after tailoring and a send, another after a tailoring
\* failure
C3_Witness ==
  \E j, k \in DOMAIN tasks :
    /\ FullPipelinePassed(j) /\ tasks[j].pc = "done" /\ tasks[j].td # None
    /\ calls[j].email = 1
    /\ FullPipelinePassed(k) /\ tasks[k].pc = "done" /\ tasks[k].td = None
    /\ calls[k].tailor = 1

\* ---- C4 -----------------------------------------------------------------
\* C4: once a job's status is below_threshold, scored, emailed or error, no
\* later step changes its record.
C4_TerminalAbsorbing ==
  [][ \A j \in DOMAIN jobs :
        jobs[j].status \in Terminal => (j \in DOMAIN jobs' /\ jobs'[j] = jobs[j]) ]_vars

\* a job is in error while the other job of the store is still being worked on
C4_Witness ==
  \E j, k \in DOMAIN jobs :
    /\ jobs[j].status = "error"
    /\ jobs[k].status = "emailing"
    /\ tasks[k].pc = "send_match_email"

BatchIds(b) == { searches[b].job_ids[p] : p \in DOMAIN searches[b].job_ids }

\* C6: in one batch run at most 5 jobs have a status in scoring, tailoring,
\* emailing at any time, and every other unfinished job of the batch is queued.
C6_AtMostFiveInFlight ==
  \A b \in DOMAIN searches :
    LET ids == BatchIds(b) \cap DOMAIN jobs IN
      /\ Cardinality({ j \in ids : jobs[j].status \in InFlight }) <= 5
      /\ \A j \in ids :
           jobs[j].status \notin (InFlight \cup Terminal) => jobs[j].status = "queued"

\* five jobs of the batch are in flight, covering the three stages, and the
\* sixth is still queued
C6_Witness ==
  \E b \in DOMAIN searches :
    LET ids == BatchIds(b) \cap DOMAIN jobs IN
      /\ Cardinality({ j \in ids : jobs[j].status \in InFlight }) = 5
      /\ \A st \in InFlight : \E j \in ids : jobs[j].status = st
      /\ \E j \in ids : jobs[j].status = "queued"

\* ---- C7 -----------------------------------------------------------------
\* C7: before scoring starts for any job of a batch, every posting of the
\* batch has a queued record, and a poll of that job id sees it as queued.
C7_QueuedVisibleBeforeScoring ==
  \A b \in DOMAIN searches :
    (searches[b].phase = "gather" /\ \A j \in BatchIds(b) : tasks[j].pc = "sem")
      => \A j \in BatchIds(b) :
           /\ j \in DOMAIN jobs
           /\ jobs[j].status = "queued"
           /\ \E u \in Users :
                LET r == get_job(jobs, j, u) IN
                  "status" \in DOMAIN r /\ r.status = "queued"

StageTag(st) ==
  CASE st = "scoring" -> "Scoring:"
    [] st = "tailoring" -> "Tailoring:"
    [] st = "emailing" -> "Email:"
    [] OTHER -> "?"

\* the status the record showed when the stage failed
FailedStage(j) == seen[j][Len(seen[j]) - 1]

\* C9: for a batch job that ended in error because a stage failed, with
\* auto_pipeline true or false, the error text is the tag of the failing
\* stage followed by the cause; a scoring failure gives the statuses queued,
\* scoring, error and the tag "Scoring:".
C9_ErrorCarriesStageTag ==
  \A j \in BatchJobs :
    (tasks[j].e # None /\ j \in DOMAIN jobs)
      => /\ jobs[j].error = << StageTag(FailedStage(j)), tasks[j].e[1] >>
         /\ calls[j].tailor = 0 =>
              /\ seen[j] = << "queued", "scoring", "error" >>
              /\ jobs[j].error[1] = "Scoring:"

C11_ManualSkippedIsReviewable ==
  \A j \in DOMAIN tasks :
    (tasks[j].kind = "run_pipeline" /\ tasks[j].td # None /\ ~SmtpConfigured
       /\ tasks[j].pc = "done" /\ j \in DOMAIN jobs)
      => /\ jobs[j].status \in { "scored", "emailed" }
         /\ jobs[j].error = None
         /\ jobs[j].match_score = Some(tasks[j].sd[1].match_score)
         /\ jobs[j].resume_suggestions = Some(tasks[j].td[1].resume_suggestions)
         /\ jobs[j].cover_letter = Some(tasks[j].td[1].cover_letter)

\* ---- C12 ----------------------------------------------------------------
\* C12: the gate of a batch job compares match_score with the match_threshold
\* its owner has stored at the moment scoring completes: whoever of the users
\* the owner is, the job is stopped as below_threshold exactly if its score
\* is below that user's stored value.
C12_GateUsesOwnersThreshold ==
  [][ \A j \in DOMAIN tasks :
        (tasks[j].batch # 0 /\ tasks[j].sd = None /\ tasks'[j].sd # None)
          => \E u \in Users :
               (jobs'[j].status = "below_threshold")
                 <=> (tasks'[j].sd[1].match_score < users[u].match_threshold) ]_vars

IsRaised(r) == "raised" \in DOMAIN r
\* the attempts before the last one all raised a retryable error
RetriedUpTo(n) ==
  \A i \in 1..n : IsRaised(retry.results[i]) /\ is_retryable(retry.results[i].raised)

\* C14: a wrapped call that raises a retryable error on its first three
\* attempts and returns on the fourth makes the wrapper return that value
\* after sleeps of exactly 5, 10 and 20 seconds in this order; a wrapped call
\* whose first failure is not retryable makes the wrapper raise after this one
\* attempt without any sleep.
C14_ThreeRetriesThenSuccess ==
  /\ (retry.pc = "returned" /\ Len(retry.results) = 4 /\ RetriedUpTo(3))
       => /\ retry.out = Some(retry.results[4])
          /\ ~IsRaised(retry.results[4])
          /\ retry.slept = << 5, 10, 20 >>
  /\ (Len(retry.results) >= 1 /\ IsRaised(retry.results[1])
        /\ ~is_retryable(retry.results[1].raised))
       => /\ retry.pc = "raised"
          /\ Len(retry.results) = 1
          /\ retry.slept = << >>

\* the wrapper returned on the fourth attempt after a 503, a 429 and a 503
C14_Witness ==
  /\ retry.pc = "returned"
  /\ Len(retry.results) = 4
  /\ RetriedUpTo(3)
  /\ retry.results[2] # retry.results[1]
  /\ retry.out = Some(Returned("response"))

\* ---- C15 ----------------------------------------------------------------
\* C15: the wrapped call is invoked at most 4 times per wrapper call, the
\* sleeps follow the sequence 5, 10, 20, 40, and a call that fails retryably
\* on every attempt has slept 5, 10, 20 and 40 seconds when the wrapper gives
\* up.
C15_FourDelays ==
  /\ Len(retry.results) <= 4
  /\ retry.slept = SubSeq(<< 5, 10, 20, 40 >>, 1, Len(retry.slept))
  /\ (retry.pc = "raised" /\ Len(retry.results) = 4 /\ RetriedUpTo(4))
       => retry.slept = << 5, 10, 20, 40 >>

\* ---- C16 ----------------------------------------------------------------
\* C16: when the wrapper raises, it raises the error of the last attempt of
\* the wrapped call, after a non-retryable error as well as after the fourth
\* retryable one; never the error of an earlier attempt or one of its own.
C16_RaisesLastError ==
  retry.pc = "raised"
    => /\ IsRaised(Last(retry.results))
       /\ retry.out = Some(Last(retry.results))

\* the retries are exhausted and the fourth error differs from the third
C16_Witness ==
  /\ retry.pc = "raised"
  /\ Len(retry.results) = 4
  /\ RetriedUpTo(4)
  /\ retry.results[4] # retry.results[3]
  /\ retry.out = Some(retry.results[4])

\* ---- C17 ----------------------------------------------------------------
\* a record without its updated_at
SansUpdatedAt(rec) == [ f \in DOMAIN rec \ { "updated_at" } |-> rec[f] ]

\* C17: update_job on a record the store holds sets exactly the named fields
\* and updated_at and leaves every other field as it was; the same update
\* applied once more gives a record that is field-equal, updated_at apart, to
\* the record after the first application.
C17_UpdateMergesAndIsIdempotent ==
  (last_update # None /\ last_update[1].before # None)
    => LET u == last_update[1]
           old == u.before[1]
           new == jobs[u.job_id]
           again == update_job(jobs, u.job_id, u.kwargs)[u.job_id]
       IN  /\ DOMAIN new = DOMAIN old
           /\ \A f \in DOMAIN new \ { "updated_at" } :
                new[f] = IF f \in DOMAIN u.kwargs THEN u.kwargs[f] ELSE old[f]
           /\ SansUpdatedAt(again) = SansUpdatedAt(new)

\* a record that has an error text received the same score fields twice
C17_Witness ==
  /\ last_update # None
  /\ last_update[1].before # None
  /\ "match_score" \in DOMAIN last_update[1].kwargs
  /\ last_update[1].before[1].error # None
  /\ last_update[1].before[1].match_score = last_update[1].kwargs.match_score
  /\ jobs[last_update[1].job_id].updated_at = last_update[1].before[1].updated_at + 1
  /\ SansUpdatedAt(jobs[last_update[1].job_id]) = SansUpdatedAt(last_update[1].before[1])

\* ---- C18 ----------------------------------------------------------------
\* the time of day an "HH:MM" text names
TimeOf(run_time) ==
  [ hour |-> 10 * DigitValue(run_time[1]) + DigitValue(run_time[2]),
    minute |-> 10 * DigitValue(run_time[4]) + DigitValue(run_time[5]) ]

Registered(u) == u \in DOMAIN scheduler
PersistedEnabled(u) == u \in DOMAIN user_schedules /\ user_schedules[u].enabled

\* C18: after schedule writes that were handled one after the other and
\* completed, the scheduler has a job for a user exactly if a schedule row of
\* that user exists with enabled true, and the job fires at the row's
\* run_time.
C18_RegistryMatchesPersisted ==
  running =>
    \A u \in Users :
      u \notin failed =>
        /\ Registered(u) <=> PersistedEnabled(u)
        /\ Registered(u) => scheduler[u] = TimeOf(user_schedules[u].run_time)

\* after several writes one user is registered at 18:30 and the other user's
\* older row is disabled and has no job
C18_Witness ==
  /\ running
  /\ failed = { }
  /\ \E u, v \in Users :
       /\ PersistedEnabled(u) /\ Registered(u)
       /\ scheduler[u] = [ hour |-> 18, minute |-> 30 ]
       /\ v \in DOMAIN user_schedules /\ ~user_schedules[v].enabled /\ ~Registered(v)
       /\ user_schedules[v].id < user_schedules[u].id

\* ---- C19 ----------------------------------------------------------------
\* C19: when the schedule requests of a user were handled concurrently and
\* all of them have completed, the scheduler has a job for that user exactly
\* if the persisted enabled flag is true.
C19_ConcurrentWritesConverge ==
  running =>
    \A u \in Users :
      (u \notin failed /\ \A w \in DOMAIN requests : requests[w].user # u)
        => (Registered(u) <=> PersistedEnabled(u))

\* ---- C20 ----------------------------------------------------------------
\* C20: when the process has started, the scheduler has a job for exactly the
\* users whose persisted schedule is enabled, and each fires at the persisted
\* run_time, whatever jobs the scheduler held before.
C20_RegistryRebuiltAtStart ==
  [][ (boots' = boots + 1 /\ running')
        => \A u \in Users :
             /\ (u \in DOMAIN scheduler')
                  <=> (u \in DOMAIN user_schedules' /\ user_schedules'[u].enabled)
             /\ u \in DOMAIN scheduler'
                  => scheduler'[u] = TimeOf(user_schedules'[u].run_time) ]_vars

\* the process came up again and the job of a user, whose row is the second
\* one inserted, was rebuilt
C20_Witness ==
  /\ boots = 1 /\ running /\ requests = << >>
  /\ \E u \in Users :
       /\ PersistedEnabled(u) /\ Registered(u)
       /\ user_schedules[u].id = 2
       /\ scheduler[u] = [ hour |-> 9, minute |-> 0 ]

\* ---- C21 ----------------------------------------------------------------
\* C21: the user_schedules table holds one row per user and the scheduler
\* one job per user (both are keyed by the user, the table by its unique
\* user_id column and the scheduler by the job id "search_<user_id>"); a row
\* id is handed out only when a user who had no row gets one, the ids of the
\* rows are distinct, and a set_schedule of a user who has a row keeps that
\* row, with its id, instead of adding another.
C21_OneSchedulePerUser ==
  /\ [](\A u \in DOMAIN user_schedules : user_schedules[u].id \in 1..rows)
  /\ [](\A u, v \in DOMAIN user_schedules :
          user_schedules[u].id = user_schedules[v].id => u = v)
  /\ [](DOMAIN scheduler \subseteq Users /\ DOMAIN user_schedules \subseteq Users)
  /\ [][ /\ rows' - rows
              = Cardinality(DOMAIN user_schedules' \ DOMAIN user_schedules)
         /\ \A u \in DOMAIN user_schedules \cap DOMAIN user_schedules' :
              user_schedules'[u].id = user_schedules[u].id ]_vars

\* the one row of a user was written by a set_schedule that enabled it, whose
\* job is registered, and then by a second set_schedule that disabled it and
\* has not yet reached the scheduler: still one row, with the first id
C21_Witness ==
  \E u \in Users :
    /\ rows = 1
    /\ u \in DOMAIN user_schedules
    /\ user_schedules[u].id = 1
    /\ ~user_schedules[u].enabled
    /\ Registered(u)
    /\ \E w \in DOMAIN requests :
         /\ requests[w].op = "set_schedule" /\ requests[w].user = u
         /\ requests[w].pc = "refresh"
         /\ ~requests[w].payload.enabled

\* ---- C22 ----------------------------------------------------------------
\* C22: every job record has status queued at creation, whether the batch
\* runner, the manual pipeline or POST /jobs created it.
C22_CreatedQueued ==
  \A j \in DOMAIN jobs : seen[j][1] = "queued"

\* ---- C23 ----------------------------------------------------------------
\* C23: when the key of the LLM API is absent, a batch or pipeline request is
\* refused before any job record is created: no record exists, in queued,
\* scoring, error or any other status, and no batch run was accepted.
C23_NoKeyNoJob ==
  ~GOOGLE_API_KEY => (DOMAIN jobs = { } /\ DOMAIN searches = { })

\* ---- C24 ----------------------------------------------------------------
\* C24: when the scrape of a batch returns no posting or raises, the run is
\* over: that step creates no job record, starts no pipeline and invokes no
\* stage, the job records are what they were, and the batch never has a job
\* or a pipeline later on.
C24_EmptyScrapeEndsRun ==
  /\ [][ \A b \in DOMAIN searches :
           ( /\ searches[b].scrape = None /\ searches'[b].scrape # None
             /\ \/ "raised" \in DOMAIN searches'[b].scrape[1]
                \/ searches'[b].scrape[1] = Scraped(0) )
             => /\ jobs' = jobs
                /\ uuids' = uuids
                /\ tasks' = tasks
                /\ calls' = calls
                /\ searches'[b].phase = "returned" ]_vars
  /\ [](\A b \in DOMAIN searches :
          searches[b].phase = "returned"
            => /\ searches[b].job_ids = << >>
               /\ \A j \in DOMAIN tasks : tasks[j].batch # b)

\* the scrape of a batch raised while the store held a record of the manual
\* pipeline that is being tailored; the batch is over and the store still
\* holds just that record
C24_Witness ==
  \E b \in DOMAIN searches :
    /\ searches[b].phase = "returned"
    /\ searches[b].scrape = Some(ScrapeRaised("ConnectionError"))
    /\ DOMAIN jobs = { 1 }
    /\ tasks[1].kind = "run_pipeline"
    /\ jobs[1].status = "tailoring"
    /\ calls[1] = [ score |-> 1, tailor |-> 1, email |-> 0 ]

C28_OneOwnedRecordPerPosting ==
  \A b \in DOMAIN searches :
    searches[b].phase = "gather" =>
      LET ids == searches[b].job_ids
          n == raw_jobs(searches[b].scrape[1])
      IN  /\ Len(ids) = n
          /\ \A p, q \in 1..n : ids[p] = ids[q] => p = q
          /\ \A p \in 1..n :
               /\ ids[p] \in DOMAIN jobs
               /\ jobs[ids[p]].id = ids[p]
               /\ jobs[ids[p]].job_description = p
          /\ \E u \in Users : \A p \in 1..n : jobs[ids[p]].user_id = Some(u)

\* ---- C29 ----------------------------------------------------------------
\* the fields the pipeline writes
PipelineFields ==
  { "status", "match_score", "reasoning", "missing_skills",
    "resume_suggestions", "cover_letter", "error", "updated_at" }

\* C29: no step of a pipeline changes a job's id, owner, created_at, resume,
\* job description, recipient, applicant name, title, company, URL, platform,
\* location or posting date, removes the record or gives it another set of
\* fields; only status, match_score, reasoning, missing_skills,
\* resume_suggestions, cover_letter, error and updated_at change.
C29_InputsNeverChange ==
  [][ \A j \in DOMAIN jobs :
        /\ j \in DOMAIN jobs'
        /\ DOMAIN jobs'[j] = DOMAIN jobs[j]
        /\ \A f \in DOMAIN jobs[j] \ PipelineFields : jobs'[j][f] = jobs[j][f] ]_vars

\* a job of a batch went through all stages: every field the pipeline may
\* write has been written or cleared, and the record still has the inputs of
\* its posting
C29_Witness ==
  \E j \in DOMAIN jobs :
    /\ tasks[j].kind = "pipeline_job"
    /\ seen[j] = << "queued", "scoring", "tailoring", "emailing", "emailed" >>
    /\ jobs[j].match_score # None /\ jobs[j].reasoning # None
    /\ jobs[j].missing_skills # << >>
    /\ jobs[j].resume_suggestions # None /\ jobs[j].cover_letter # None
    /\ jobs[j].updated_at = 6
    /\ \E p \in 1..MaxJobs :
         \A f \in DOMAIN jobs[j] \ (PipelineFields \cup { "id" }) :
           jobs[j][f] = SearchRecord(j, p)[f]

\* ---- C30 ----------------------------------------------------------------
\* C30: while the pipelines of a batch interleave, up to five at a time, a
\* step of the pipeline of one job leaves the record of every other job as it
\* was, and when the pipeline of a job is over its record is the record that
\* pipeline writes when it runs on its own with the same stage results.
C30_InterleavingIsInvisible ==
  /\ [][ \A j \in DOMAIN tasks :
           (j \in DOMAIN tasks' /\ tasks'[j] # tasks[j])
             => \A k \in DOMAIN jobs \ { j } : jobs'[k] = jobs[k] ]_vars
  /\ [](\A j \in BatchJobs : tasks[j].pc = "done" => jobs[j] = RunAlone(j))

\* five pipelines interleaved and all six jobs are over, one failed in
\* scoring while the job registered before it and the one after it were
\* carried on to scored
C30_Witness ==
  /\ DOMAIN jobs = 1..CapPostings
  /\ \A j \in DOMAIN jobs : tasks[j].pc = "done"
  /\ jobs[2].status = "error" /\ jobs[2].updated_at = 2
  /\ jobs[1].status = "scored" /\ jobs[1].updated_at = 6
  /\ jobs[3].status = "scored"
  /\ jobs[3].cover_letter = Some("Dear Hiring Manager")


\* ---- C31 ----------------------------------------------------------------
\* the send of job j returned "sent"
Sent(j) == tasks[j].result # None /\ tasks[j].result[1].status = "sent"
\* a text column holds a text that is not empty
NonEmpty(text) == text # None /\ text[1] # ""

\* the status sequence of a job that passed the gate, was tailored and sent
C31_SentSequence ==
  \A j \in DOMAIN jobs :
    Sent(j) => seen[j] = << "queued", "scoring", "tailoring", "emailing", "emailed" >>

\* C31: a job scored at or above the threshold whose tailoring and send both
\* succeeded went through exactly queued, scoring, tailoring, emailing,
\* emailed, and every job with status emailed has a non-empty
\* resume_suggestions and a non-empty cover_letter.
C31_EmailedHasBothTexts ==
  /\ C31_SentSequence
  /\ \A j \in DOMAIN jobs :
       jobs[j].status = "emailed"
         => NonEmpty(jobs[j].resume_suggestions) /\ NonEmpty(jobs[j].cover_letter)

\* ---- C32 ----------------------------------------------------------------
\* the request answered last names a job that another user owns
ForeignRequest(r) ==
  /\ r.op \in { "get_job", "delete_job", "save_job" }
  /\ r.job_id \in DOMAIN jobs
  /\ jobs[r.job_id].user_id # Some(r.current_user)

\* C32: get_job, delete_job and save_job by user U with the id of a job that
\* another user owns answer not-found and leave the jobs and the bookmarks as
\* they are, and list_jobs for U answers only jobs owned by U.
C32_ScopedByOwner ==
  /\ [][ (response' # response /\ ForeignRequest(response'[1]))
           => /\ response'[1].answer = NotFound
              /\ jobs' = jobs
              /\ saved_jobs' = saved_jobs ]_vars
  /\ [](\A u \in Users : \A job_id \in DOMAIN jobs :
          jobs[job_id].user_id # Some(u) => get_job(jobs, job_id, u) = NotFound)
  /\ []((response # None /\ response[1].op = "list_jobs")
          => \A rec \in response[1].answer.body :
               rec.user_id = Some(response[1].current_user))
  /\ [](\A s \in saved_jobs :
          s.job_id \in DOMAIN jobs /\ jobs[s.job_id].user_id = Some(s.user_id))

\* u1 and u2 each own a job, u1 has bookmarked theirs, and u2's request to
\* bookmark u1's job was answered not-found
C32_Witness ==
  /\ DOMAIN jobs = { 1, 2 }
  /\ jobs[1].user_id = Some("u1") /\ jobs[2].user_id = Some("u2")
  /\ saved_jobs = { [ user_id |-> "u1", job_id |-> 1 ] }
  /\ response = Answered("save_job", "u2", 1, NotFound)

\* ---- C33 ----------------------------------------------------------------
\* C33: a set_schedule request with enabled true whose run_time does not
\* parse as HH:MM leaves the scheduler consistent with the persisted row:
\* when it is over there is no row with enabled true whose user has no job
\* in the scheduler, so a job registered before is not lost while the row
\* stays enabled.
C33_BadRunTimeKeepsRegistry ==
  running =>
    \A u \in failed : PersistedEnabled(u) => Registered(u)

\* ---- C34 ----------------------------------------------------------------
LastRun(us, u) == IF u \in DOMAIN us THEN us[u].last_run ELSE None
\* the step is the trigger of u firing and _run_user_search going on to the
\* write of last_run
GoesOn(u) ==
  /\ u \in DOMAIN firings' /\ firings'[u].pc = "commit"
  /\ u \in DOMAIN firings => firings[u].pc # "commit"
\* the step ends a call of _run_user_search for u that started no run
ReturnsEarly(u) ==
  /\ u \in DOMAIN firings' /\ firings'[u].pc = "returned" /\ ~firings'[u].started
  /\ u \in DOMAIN firings => firings'[u] # firings[u]

\* C34: when the trigger of user U fires, _run_user_search goes on only if at
\* that moment U has a persisted schedule with enabled true and U exists; a
\* batch run is started and last_run is written only by such a call, and a
\* call that does not go on, or whose row is gone when it writes, creates no
\* job record, starts no run and leaves the schedules as they were.
C34_FiringChecksSchedule ==
  /\ [][ \A u \in Users :
           GoesOn(u) => PersistedEnabled(u) /\ u \in DOMAIN users ]_vars
  /\ [][ ( \/ DOMAIN searches' # DOMAIN searches
           \/ \E u \in Users :
                LastRun(user_schedules', u) \notin { None, LastRun(user_schedules, u) } )
           => \E u \in DOMAIN firings :
                /\ firings[u].pc = "commit" /\ firings[u].sched # None
                /\ firings'[u].started ]_vars
  /\ [][ \A u \in Users :
           ReturnsEarly(u)
             => /\ jobs' = jobs
                /\ searches' = searches
                /\ user_schedules' = user_schedules ]_vars
  /\ [](\A u \in DOMAIN user_schedules :
          user_schedules[u].last_run # None
            => user_schedules[u].last_run[1] \in DOMAIN searches)
  /\ [](DOMAIN jobs # { } => DOMAIN searches # { })

\* one firing started run 1, which registered a job; later the schedule was
\* disabled while the scheduler kept the job of u1, and the next firing
\* returned without a run: last_run is still the time of run 1
C34_Witness ==
  /\ requests = << >>
  /\ Registered("u1")
  /\ "u1" \in DOMAIN user_schedules
  /\ ~user_schedules["u1"].enabled
  /\ user_schedules["u1"].last_run = Some(1)
  /\ "u1" \in DOMAIN firings
  /\ firings["u1"] = [ pc |-> "returned", sched |-> None, started |-> FALSE ]
  /\ DOMAIN searches = { 1 }
  /\ DOMAIN jobs = { 1 }

\* ---- C35 ----------------------------------------------------------------
\* the ids of the jobs that were deleted
Deleted == DOMAIN seen \ DOMAIN jobs

\* C35: once its owner has deleted a job, every later update_job call with
\* that id leaves the job store as it is, whatever fields a pipeline passes,
\* and the id never has a record again.
C35_DeletedStaysDeleted ==
  /\ [][ (last_update' # last_update /\ last_update'[1].job_id \notin DOMAIN jobs)
           => jobs' = jobs ]_vars
  /\ [][ \A j \in Deleted : j \notin DOMAIN jobs' ]_vars
  /\ [](\A j \in Deleted : \A kwargs \in UpdateKwargs :
          update_job(jobs, j, kwargs) = jobs)

\* u1 deleted their job 1 after it had been updated once, update_job was then
\* called for job 1 again, and the job of u2 is as it was created
C35_Witness ==
  /\ response = Answered("delete_job", "u1", 1, Ok(200, [ deleted |-> 1 ]))
  /\ seen[1] = << "pending", "error" >>
  /\ last_update # None
  /\ last_update[1].job_id = 1
  /\ last_update[1].before = None
  /\ DOMAIN jobs = { 2 }
  /\ jobs[2].user_id = Some("u2")
  /\ jobs[2].updated_at = 0

\* ---- C36 ----------------------------------------------------------------
\* C36: in every state a job record has an error text exactly if its status
\* is error: no job that is queued, scoring, tailoring, emailing,
\* below_threshold, scored or emailed carries one, and every job in error
\* does.
C36_ErrorIffStatusError ==
  \A j \in DOMAIN jobs :
    jobs[j].error # None <=> jobs[j].status = "error"

\* a batch job failed in tailoring and carries the text, with its score kept,
\* while a manual job next to it went through to emailed without one
C36_Witness ==
  \E j, k \in DOMAIN jobs :
    /\ tasks[j].kind = "pipeline_job"
    /\ jobs[j].status = "error"
    /\ jobs[j].error = << "Tailoring:", "Expecting value" >>
    /\ jobs[j].match_score # None
    /\ tasks[k].kind = "run_pipeline"
    /\ jobs[k].status = "emailed"
    /\ jobs[k].error = None

\* ---- C37 ----------------------------------------------------------------
\* the second LLM call of the tailoring of job j raised after the first had
\* returned
SecondCallRaised(j) ==
  /\ tasks[j].td # None
  /\ DOMAIN tasks[j].td[1] = { "resume_suggestions" }
  /\ tasks[j].e # None

\* C37: in every state a job record has resume_suggestions exactly if it has
\* cover_letter; when the first tailoring call returned and the second
\* raised, neither text is in the record and the job is in error.
C37_BothTextsOrNone ==
  \A j \in DOMAIN jobs :
    /\ jobs[j].resume_suggestions # None <=> jobs[j].cover_letter # None
    /\ SecondCallRaised(j)
         => /\ jobs[j].status = "error"
            /\ jobs[j].resume_suggestions = None
            /\ jobs[j].cover_letter = None

\* the first call of job 1 returned its suggestions and the second raised:
\* the job is in error with its score and without texts, while job 2 of the
\* same batch got both texts
C37_Witness ==
  /\ DOMAIN jobs = { 1, 2 }
  /\ SecondCallRaised(1)
  /\ tasks[1].td[1].resume_suggestions = "1. Add Go"
  /\ jobs[1].error = << "Tailoring:", "Expecting value" >>
  /\ jobs[1].match_score # None
  /\ jobs[1].resume_suggestions = None
  /\ jobs[2].resume_suggestions = Some("1. Add Go")
  /\ jobs[2].cover_letter = Some("Dear Hiring Manager")

\* ---- C38 ----------------------------------------------------------------
\* C38: a step that takes a job to error changes only its status, error and
\* updated_at; a job that fails in tailoring keeps the match_score, reasoning
\* and missing_skills written after scoring, and a job that fails in sending
\* keeps its resume_suggestions and cover_letter as well.
C38_ErrorKeepsResults ==
  /\ [][ \A j \in DOMAIN jobs :
           (j \in DOMAIN jobs' /\ jobs[j].status # "error" /\ jobs'[j].status = "error")
             => /\ \A f \in DOMAIN jobs[j] \ { "status", "error", "updated_at" } :
                     jobs'[j][f] = jobs[j][f]
                /\ jobs'[j].error # None
                /\ jobs'[j].updated_at = jobs[j].updated_at + 1 ]_vars
  /\ [](\A j \in DOMAIN jobs :
          (jobs[j].status = "error" /\ tasks[j].sd # None)
            => /\ jobs[j].match_score = Some(tasks[j].sd[1].match_score)
               /\ jobs[j].reasoning = Some(tasks[j].sd[1].reasoning)
               /\ jobs[j].missing_skills = tasks[j].sd[1].missing_skills)
  /\ [](\A j \in DOMAIN jobs :
          (jobs[j].status = "error" /\ tasks[j].td # None)
            => /\ jobs[j].resume_suggestions = Some(tasks[j].td[1].resume_suggestions)
               /\ jobs[j].cover_letter = Some(tasks[j].td[1].cover_letter))

\* of two batch jobs one failed in sending and has its score and both texts,
\* the other failed in tailoring and has its score and no texts
C38_Witness ==
  \E j, k \in DOMAIN jobs :
    /\ tasks[j].kind = "pipeline_job" /\ tasks[k].kind = "pipeline_job"
    /\ jobs[j].error = << "Email:", "SMTPAuthenticationError" >>
    /\ jobs[j].match_score = Some(75)
    /\ jobs[j].cover_letter = Some("Dear Hiring Manager")
    /\ jobs[j].resume_suggestions = Some("1. Add Go")
    /\ jobs[k].error = << "Tailoring:", "Expecting value" >>
    /\ jobs[k].match_score = Some(75)
    /\ jobs[k].missing_skills = << "Go" >>
    /\ jobs[k].cover_letter = None

\* ---- C39 ----------------------------------------------------------------
Gated == { "tailoring", "emailing", "emailed" }
Scored == Gated \cup { "scored", "below_threshold" }

\* C39: every job whose status is tailoring, emailing, emailed, scored or
\* below_threshold has a match_score, the one its scoring returned; a job whose
\* status is tailoring, emailing or emailed has a match_score at or above
\* app_config["match_threshold"], the threshold its gate compared it with.
C39_ScoredBeforeGate ==
  \A j \in DOMAIN jobs :
    /\ jobs[j].status \in Scored
         => /\ jobs[j].match_score # None
            /\ tasks[j].sd # None
            /\ jobs[j].match_score = Some(tasks[j].sd[1].match_score)
    /\ jobs[j].status \in Gated
         => jobs[j].match_score[1] >= app_config.match_threshold

\* at threshold 75 one job with score 75 was emailed and another with score 60
\* stopped at the gate
C39_Witness ==
  /\ app_config.match_threshold = 75
  /\ \E j, k \in DOMAIN jobs :
       /\ jobs[j].status = "emailed" /\ jobs[j].match_score = Some(75)
       /\ jobs[k].status = "below_threshold" /\ jobs[k].match_score = Some(60)
====
